---- MODULE Spec2Model ----
(***************************************************************************)
(* A model of the relocation job board: the persisted tables (User, Job,   *)
(* JobBookmark, JobApplication), the request handlers that mutate them     *)
(* (register, toggle_bookmark, apply_to_job, update_application_status),   *)
(* User.has_access and CulturalIntelligence._calculate_cultural_fit.       *)
(*                                                                         *)
(* Handlers that first query and later commit are split at the commit, so  *)
(* that two requests served by different worker threads can interleave     *)
(* between the query and the commit, as they can in the threaded server.   *)
(***************************************************************************)
EXTENDS Integers, Sequences, FiniteSets, TLC

VARIABLES
    users,          \* table user: set of User rows
    jobs,           \* table job: set of Job rows
    bookmarks,      \* table job_bookmark: set of JobBookmark rows
    applications,   \* table job_application: set of JobApplication rows
    pending,        \* per worker thread: the request it is in the middle of
    response,       \* the response most recently sent by any handler
    session,        \* flask-login: per worker, the user id in the session of the client it serves
    now,            \* the clock: a step of the handlers, days for subscriptions, seconds for the ATSSystem
    access,         \* the last has_access() call: on which user, and what it returned
    personality,    \* PersonalityProfile passed to _calculate_cultural_fit
    company,        \* CompanyCulture passed to _calculate_cultural_fit
    fit,            \* CulturalFitResult of the last _calculate_cultural_fit call
    scrape,         \* the search_relocation_jobs invocation in progress
    cwd,            \* the working directory of the server process
    repo,           \* the git repository the server runs from
    git,            \* per thread: its git_add_commit_push invocation
    call,           \* per library object: the call of one of its methods, arguments and return value
    ats             \* the ATSSystem object: its three dicts

vars == <<users, jobs, bookmarks, applications, pending, response, session, now,
          access, personality, company, fit, scrape, cwd, repo, git, call, ats>>

\* Python None / SQL NULL, of a string
None == "None"
\* Python None where a row id is expected: Query.first() found no row
NoRow == 0
\* SQL NULL of a DateTime column
NoTime == -1

-----------------------------------------------------------------------------
(* Bounds of the model *)

\* the clock stops here; every handler step takes one instant
MaxTime == 5
\* largest rowid the job_bookmark table hands out
MaxBookmarkId == 3
\* largest rowid the user table hands out
MaxUserId == 3
\* largest rowid the job table hands out
MaxJobId == 3
\* the last day the subscription clock reaches
MaxDay == 35
\* the largest level a CompanyCulture record is given
LevelBound == 11
\* server threads serving requests concurrently
Workers == {"w1", "w2"}

-----------------------------------------------------------------------------
(* Rows *)

User(id, email, username, password_hash, user_type, company_name) ==
    [id |-> id, email |-> email, username |-> username,
     password_hash |-> password_hash, user_type |-> user_type,
     company_name |-> company_name,
     subscription_type |-> "free", subscription_expires |-> NoTime,
     last_login |-> NoTime]

Job(id, company_name) == [id |-> id, company |-> company_name]

\* werkzeug's generate_password_hash: a digest from which the password cannot
\* be read back, only compared
GeneratePasswordHash(password) == <<"hash", password>>

JobBookmark(id, user_id, job_id) ==
    [id |-> id, user_id |-> user_id, job_id |-> job_id]

JobApplication(id, user_id, job_id, cover_letter, resume_url, t) ==
    [id |-> id, user_id |-> user_id, job_id |-> job_id,
     status |-> "applied", cover_letter |-> cover_letter,
     resume_url |-> resume_url, applied_at |-> t, last_updated |-> t,
     notes |-> None]

\* the five values the status column is documented to hold
Statuses == {"applied", "screening", "interview", "offer", "rejected"}

UserTypes == {"job_seeker", "employer", "admin"}

\* INTEGER PRIMARY KEY of the default SQLite database: largest rowid + 1
NextId(rows) ==
    IF rows = {} THEN 1
    ELSE (CHOOSE m \in {r.id : r \in rows} : \A r \in rows : r.id <= m) + 1

\* Query.first() of a non-empty result: the row with the smallest rowid
First(rows) == CHOOSE r \in rows : \A q \in rows : r.id <= q.id

\* a worker between requests; the fields are the locals of the handler it runs
Idle == [op |-> "idle", user_id |-> NoRow, job_id |-> NoRow, existing |-> NoRow,
         cover_letter |-> "", resume_url |-> "",
         email |-> None, username |-> None, password |-> None,
         user_type |-> None, company_name |-> None,
         new_jobs |-> <<>>, added |-> <<>>]

Response(op, code, body) == [op |-> op, code |-> code, body |-> body]

NoResponse == Response("none", 0, None)

\* has_access() was not called yet
NoCall == [called |-> FALSE, user_id |-> NoRow, result |-> FALSE]

\* search_relocation_jobs is not running; the fields are its locals, the
\* number of HTTP requests it sent to each source, the sources it called, those
\* that logged an error, those whose request did not answer 200, and what its
\* caller got
NoScrape ==
    [pc |-> "idle", rapidapi_key |-> FALSE,
     requests |-> [usajobs |-> 0, jsearch |-> 0], called |-> {},
     usa_jobs |-> <<>>, rapidapi_jobs |-> <<>>, linkup_jobs |-> <<>>,
     jobs |-> <<>>, errors |-> {}, failed |-> {},
     returned |-> <<>>, raised |-> FALSE]

\* the threads that call git_add_commit_push: the BackgroundScheduler's, and
\* the request thread serving /admin/manual-git-push
Threads == {"scheduler", "request"}

\* git_add_commit_push is not running in a thread; ran lists the git commands
\* the invocation has run with how each ended, result is its return value
NoInvocation ==
    [pc |-> "idle", stdout |-> <<>>, ran |-> <<>>, log |-> <<>>,
     result |-> None, raised |-> FALSE]

\* the directory the server was started from, and the one auto_git_pusher.py is in
LaunchDir == "launch_dir"
ProjectDir == "project_dir"

\* the repository: whether the index holds staged changes, and whether the
\* branch has commits the remote has not
CleanRepo == [staged |-> FALSE, ahead |-> FALSE]

\* the objects whose methods are called: VisaNavigator(), CulturalIntelligence()
Objects == {"visa_navigator", "cultural_ai"}

\* no method of the object is being called
NotCalled == [op |-> "none"]

\* no method of any object is being called
NoCalls == [o \in Objects |-> NotCalled]

\* ATSSystem.__init__ (ats_system.py:109-114): the dicts the two methods
\* modelled here use, empty
ATSSystem == [candidates |-> <<>>, job_postings |-> <<>>, hiring_pipeline |-> <<>>]

\* no scrape and no git invocation is in progress, and the ATSSystem object
\* is as constructed
QuietBackground ==
    /\ scrape = NoScrape
    /\ cwd = LaunchDir
    /\ repo = CleanRepo
    /\ git = [t \in Threads |-> NoInvocation]
    /\ ats = ATSSystem

-----------------------------------------------------------------------------
(* The job board: toggle_bookmark, apply_to_job, update_application_status *)

NotEmployer(caller) == caller.user_type # "employer"

\* current_user.user_type != 'job_seeker' is answered 403
IsJobSeeker(caller) == caller.user_type = "job_seeker"

\* Job.query.get_or_404(job_id) finds a row
JobExists(job_id) == \E j \in jobs : j.id = job_id

\* JobBookmark.query.filter_by(user_id=..., job_id=...)
BookmarksOf(user_id, job_id) ==
    {b \in bookmarks : b.user_id = user_id /\ b.job_id = job_id}

\* JobApplication.query.filter_by(user_id=..., job_id=...)
ApplicationsOf(user_id, job_id) ==
    {a \in applications : a.user_id = user_id /\ a.job_id = job_id}

NoBookmarkConstraint(rows, user_id, job_id) == TRUE

\* UniqueConstraint('user_id', 'job_id'): the INSERT is accepted
UniqueBookmark(rows, user_id, job_id) ==
    ~ \E b \in rows : b.user_id = user_id /\ b.job_id = job_id

\* toggle_bookmark up to the existence query (dashboard.py:111-117)
ToggleBookmarkBegin(w, caller, job_id) ==
    /\ pending[w].op = "idle"
    /\ IF ~ IsJobSeeker(caller)
         THEN /\ response' = Response("toggle_bookmark", 403, None)
              /\ UNCHANGED pending
         ELSE IF ~ JobExists(job_id)
         THEN /\ response' = Response("toggle_bookmark", 404, None)
              /\ UNCHANGED pending
         ELSE /\ pending' = [pending EXCEPT ![w] =
                    [Idle EXCEPT !.op = "toggle_bookmark",
                                 !.user_id = caller.id,
                                 !.job_id = job_id,
                                 !.existing =
                                    IF BookmarksOf(caller.id, job_id) = {}
                                      THEN NoRow
                                      ELSE First(BookmarksOf(caller.id, job_id)).id]]
              /\ UNCHANGED response
    /\ UNCHANGED <<users, jobs, bookmarks, applications, session, now,
                   access, personality, company, fit,
                   scrape, cwd, repo, git, call, ats>>

\* toggle_bookmark from the branch on existing_bookmark to the response
\* (dashboard.py:119-133). commit() raises, and the request ends in a 500, when
\* the INSERT violates the constraint; a DELETE by rowid that matches no row
\* only makes the mapper warn (confirm_deleted_rows) and the commit goes through
ToggleBookmarkCommit(w) ==
    /\ pending[w].op = "toggle_bookmark"
    /\ IF pending[w].existing # NoRow
         THEN IF \E b \in bookmarks : b.id = pending[w].existing
                THEN /\ bookmarks' = {b \in bookmarks : b.id # pending[w].existing}
                     /\ response' = Response("toggle_bookmark", 200, "false")
                ELSE /\ response' = Response("toggle_bookmark", 200, "false")
                     /\ UNCHANGED bookmarks
         ELSE IF UniqueBookmark(bookmarks, pending[w].user_id, pending[w].job_id)
         THEN /\ NextId(bookmarks) <= MaxBookmarkId
              /\ bookmarks' = bookmarks \cup
                    {JobBookmark(NextId(bookmarks), pending[w].user_id,
                                 pending[w].job_id)}
              /\ response' = Response("toggle_bookmark", 200, "true")
         ELSE /\ response' = Response("toggle_bookmark", 500, "IntegrityError: UNIQUE")
              /\ UNCHANGED bookmarks
    /\ pending' = [pending EXCEPT ![w] = Idle]
    /\ UNCHANGED <<users, jobs, applications, session, now,
                   access, personality, company, fit,
                   scrape, cwd, repo, git, call, ats>>

ApplyAgain(user_id, job_id) == FALSE

\* if existing_application: (dashboard.py:145-147)
AlreadyApplied(user_id, job_id) == ApplicationsOf(user_id, job_id) # {}

\* apply_to_job up to the existence check (dashboard.py:139-148)
ApplyToJobBegin(w, caller, job_id, cover_letter, resume_url) ==
    /\ pending[w].op = "idle"
    /\ now < MaxTime
    /\ now' = now + 1
    /\ IF ~ IsJobSeeker(caller)
         THEN /\ response' = Response("apply_to_job", 403, None)
              /\ UNCHANGED pending
         ELSE IF ~ JobExists(job_id)
         THEN /\ response' = Response("apply_to_job", 404, None)
              /\ UNCHANGED pending
         ELSE IF AlreadyApplied(caller.id, job_id)
         THEN /\ response' = Response("apply_to_job", 400, None)
              /\ UNCHANGED pending
         ELSE /\ pending' = [pending EXCEPT ![w] =
                    [Idle EXCEPT !.op = "apply_to_job",
                                 !.user_id = caller.id,
                                 !.job_id = job_id,
                                 !.cover_letter = cover_letter,
                                 !.resume_url = resume_url]]
              /\ UNCHANGED response
    /\ UNCHANGED <<users, jobs, bookmarks, applications, session,
                   access, personality, company, fit,
                   scrape, cwd, repo, git, call, ats>>

\* apply_to_job from the construction of the row to the response
\* (dashboard.py:151-161)
ApplyToJobCommit(w) ==
    /\ pending[w].op = "apply_to_job"
    /\ now < MaxTime
    /\ now' = now + 1
    /\ applications' = applications \cup
            {JobApplication(NextId(applications), pending[w].user_id,
                            pending[w].job_id, pending[w].cover_letter,
                            pending[w].resume_url, now)}
    /\ response' = Response("apply_to_job", 200, None)
    /\ pending' = [pending EXCEPT ![w] = Idle]
    /\ UNCHANGED <<users, jobs, bookmarks, session,
                   access, personality, company, fit,
                   scrape, cwd, repo, git, call, ats>>

\* current_user.user_type != 'employer' is answered 403
IsEmployer(caller) == caller.user_type = "employer"

AnyCompany(caller, app) == TRUE

\* application.job.company != current_user.company_name is answered 403
OwnsParentJob(caller, app) ==
    \E j \in jobs : j.id = app.job_id /\ j.company = caller.company_name

ForwardOnly(new_status) == new_status \in Statuses \ {"applied"}

AnyStatus(new_status) == TRUE

StatusGiven(new_status) == new_status # None

\* new_status in ['applied', 'screening', 'interview', 'offer', 'rejected']
ValidStatus(new_status) == new_status \in Statuses

AlwaysOverwriteNotes(app, new_status, notes, t) ==
    [app EXCEPT !.status = new_status, !.notes = notes, !.last_updated = t]

\* the three assignments to the application (ats.py:80)
Updated(app, new_status, notes, t) ==
    [app EXCEPT !.status = new_status,
                !.notes = IF notes \in {"", None} THEN @ ELSE notes,
                !.last_updated = t]

\* update_application_status (ats.py:80), one transaction
UpdateApplicationStatus(caller, app_id, new_status, notes) ==
    /\ now < MaxTime
    /\ now' = now + 1
    /\ IF ~ IsEmployer(caller)
         THEN /\ response' = Response("update_application_status", 403, None)
              /\ UNCHANGED applications
         ELSE IF ~ \E a \in applications : a.id = app_id
         THEN /\ response' = Response("update_application_status", 404, None)
              /\ UNCHANGED applications
         ELSE LET app == CHOOSE a \in applications : a.id = app_id
              IN  IF ~ OwnsParentJob(caller, app)
                    THEN /\ response' = Response("update_application_status", 403, None)
                         /\ UNCHANGED applications
                    ELSE IF ValidStatus(new_status)
                    THEN /\ applications' = (applications \ {app}) \cup
                               {Updated(app, new_status, notes, now)}
                         /\ response' = Response("update_application_status", 200,
                                                 new_status)
                    ELSE /\ response' = Response("update_application_status", 400, None)
                         /\ UNCHANGED applications
    /\ UNCHANGED <<users, jobs, bookmarks, pending, session,
                   access, personality, company, fit,
                   scrape, cwd, repo, git, call, ats>>

\* values a request may carry
JobIdInputs == {j.id : j \in jobs} \cup {NextId(jobs)}
AppIdInputs == {a.id : a \in applications} \cup {NextId(applications)}
StatusInputs == Statuses \cup {None, "hired"}
NotesInputs == {"", "n1"}
CoverLetterInputs == {""}
ResumeUrlInputs == {""}

\* the users and jobs on the board
BoardUsers ==
    { User(1, "s1@x", "seeker1", GeneratePasswordHash("pw1"), "job_seeker", None),
      User(2, "s2@x", "seeker2", GeneratePasswordHash("pw2"), "job_seeker", None),
      User(3, "ea@x", "empA", GeneratePasswordHash("pw3"), "employer", "A"),
      User(4, "eb@x", "empB", GeneratePasswordHash("pw4"), "employer", "B"),
      User(5, "ad@x", "admin", GeneratePasswordHash("pw5"), "admin", None),
      User(6, "su@x", "super", GeneratePasswordHash("pw6"), "superuser", None) }

BoardJobs == { Job(1, "A"), Job(2, "B") }

Init ==
    /\ QuietBackground
    /\ call = NoCalls
    /\ users = BoardUsers
    /\ jobs = BoardJobs
    /\ bookmarks = {}
    /\ applications = {}
    /\ pending = [w \in Workers |-> Idle]
    /\ response = NoResponse
    /\ session = [w \in Workers |-> NoRow]
    /\ now = 0
    /\ access = NoCall
    /\ personality = None
    /\ company = None
    /\ fit = None

\* the board as the application handlers see it: one job seeker, two
\* employers and an admin
InitApplications ==
    /\ QuietBackground
    /\ call = NoCalls
    /\ users = {u \in BoardUsers : u.id \notin {2, 6}}
    /\ jobs = BoardJobs
    /\ bookmarks = {}
    /\ applications = {}
    /\ pending = [w \in Workers |-> Idle]
    /\ response = NoResponse
    /\ session = [w \in Workers |-> NoRow]
    /\ now = 0
    /\ access = NoCall
    /\ personality = None
    /\ company = None
    /\ fit = None

\* a board of one job, one job seeker and four users of other types
InitRoles ==
    /\ QuietBackground
    /\ call = NoCalls
    /\ users = {u \in BoardUsers : u.id # 2}
    /\ jobs = {Job(1, "A")}
    /\ bookmarks = {}
    /\ applications = {}
    /\ pending = [w \in Workers |-> Idle]
    /\ response = NoResponse
    /\ session = [w \in Workers |-> NoRow]
    /\ now = 0
    /\ access = NoCall
    /\ personality = None
    /\ company = None
    /\ fit = None

\* requests to /dashboard/bookmark/<job_id>
NextBookmarks ==
    \/ \E w \in Workers, caller \in users, job_id \in JobIdInputs :
          ToggleBookmarkBegin(w, caller, job_id)
    \/ \E w \in Workers : ToggleBookmarkCommit(w)

\* requests to /dashboard/apply/<job_id> and /ats/applications/<app_id>/update_status
NextApplications ==
    \/ \E w \in Workers, caller \in users, job_id \in JobIdInputs,
          cover_letter \in CoverLetterInputs, resume_url \in ResumeUrlInputs :
          ApplyToJobBegin(w, caller, job_id, cover_letter, resume_url)
    \/ \E w \in Workers : ApplyToJobCommit(w)
    \/ \E caller \in users, app_id \in AppIdInputs,
          new_status \in StatusInputs, notes \in NotesInputs :
          UpdateApplicationStatus(caller, app_id, new_status, notes)

Next == NextBookmarks \/ NextApplications

\* the whole job board
Spec == Init /\ [][Next]_vars

\* the bookmark requests alone
SpecBookmarks == Init /\ [][NextBookmarks]_vars

\* the application requests alone
SpecApplications == InitApplications /\ [][NextApplications]_vars

\* requests to /dashboard/bookmark/<job_id> and /dashboard/apply/<job_id>
NextRoles ==
    \/ \E w \in Workers, caller \in users, job_id \in JobIdInputs :
          ToggleBookmarkBegin(w, caller, job_id)
    \/ \E w \in Workers : ToggleBookmarkCommit(w)
    \/ \E w \in Workers, caller \in users, job_id \in JobIdInputs,
          cover_letter \in CoverLetterInputs, resume_url \in ResumeUrlInputs :
          ApplyToJobBegin(w, caller, job_id, cover_letter, resume_url)
    \/ \E w \in Workers : ApplyToJobCommit(w)

\* the bookmark and apply requests on the board of one job
SpecRoles == InitRoles /\ [][NextRoles]_vars

-----------------------------------------------------------------------------
(* Registration and login: register, login, logout *)

NoUserConstraint(rows, email, username) == TRUE

\* unique=True on User.email and on User.username: the INSERT is accepted
UniqueUser(rows, email, username) ==
    ~ \E u \in rows : u.email = email \/ u.username = username

\* nullable=False on User.email and on User.username: the INSERT is accepted
NotNullUser(email, username) == email # None /\ username # None

\* User.query.filter_by(email=email).first() finds a row
EmailExists(email) == \E u \in users : u.email = email

\* User.query.filter_by(username=username).first() finds a row
UsernameExists(username) == \E u \in users : u.username = username

\* register, POST, up to the two existence queries (auth.py:12-26)
RegisterBegin(w, email, username, password, user_type, company_name) ==
    /\ pending[w].op = "idle"
    /\ IF EmailExists(email)
         THEN /\ response' = Response("register", 200, "Email already exists")
              /\ UNCHANGED pending
         ELSE IF UsernameExists(username)
         THEN /\ response' = Response("register", 200, "Username already exists")
              /\ UNCHANGED pending
         ELSE /\ pending' = [pending EXCEPT ![w] =
                    [Idle EXCEPT !.op = "register",
                                 !.email = email,
                                 !.username = username,
                                 !.password = password,
                                 !.user_type = user_type,
                                 !.company_name = company_name]]
              /\ UNCHANGED response
    /\ UNCHANGED <<users, jobs, bookmarks, applications, session, now,
                   access, personality, company, fit,
                   scrape, cwd, repo, git, call, ats>>

\* register from the construction of the User to the response (auth.py:29-57):
\* company_name is read only for an employer; commit() raises when a unique
\* column is taken or a field the form did not carry is NULL; url_for('dashboard') names no endpoint of the application
\* and raises BuildError after the user was committed and logged in
RegisterCommit(w) ==
    /\ pending[w].op = "register"
    /\ IF ~ NotNullUser(pending[w].email, pending[w].username)
         THEN /\ response' = Response("register", 500, "IntegrityError: NOT NULL")
              /\ UNCHANGED <<users, session>>
         ELSE IF UniqueUser(users, pending[w].email, pending[w].username)
         THEN /\ NextId(users) <= MaxUserId
              /\ users' = users \cup
                    {User(NextId(users), pending[w].email, pending[w].username,
                          GeneratePasswordHash(pending[w].password),
                          pending[w].user_type,
                          IF pending[w].user_type = "employer"
                            THEN pending[w].company_name ELSE None)}
              /\ session' = [session EXCEPT ![w] = NextId(users)]
              /\ response' = Response("register", 500, "BuildError")
         ELSE /\ response' = Response("register", 500, "IntegrityError: UNIQUE")
              /\ UNCHANGED <<users, session>>
    /\ pending' = [pending EXCEPT ![w] = Idle]
    /\ UNCHANGED <<jobs, bookmarks, applications, now,
                   access, personality, company, fit,
                   scrape, cwd, repo, git, call, ats>>

\* values a registration form may carry
EmailInputs == {"a@x", "b@x", None}
UsernameInputs == {"ann", "bob"}
PasswordInputs == {"pw"}
UserTypeInputs == UserTypes \cup {"superuser"}
CompanyInputs == {"A"}

\* an empty database
InitAuth ==
    /\ QuietBackground
    /\ call = NoCalls
    /\ users = {}
    /\ jobs = {}
    /\ bookmarks = {}
    /\ applications = {}
    /\ pending = [w \in Workers |-> Idle]
    /\ response = NoResponse
    /\ session = [w \in Workers |-> NoRow]
    /\ now = 0
    /\ access = NoCall
    /\ personality = None
    /\ company = None
    /\ fit = None

NextAuth ==
    \/ \E w \in Workers, email \in EmailInputs, username \in UsernameInputs,
          password \in PasswordInputs, user_type \in UserTypeInputs,
          company_name \in CompanyInputs :
          RegisterBegin(w, email, username, password, user_type, company_name)
    \/ \E w \in Workers : RegisterCommit(w)

\* the registration requests
SpecAuth == InitAuth /\ [][NextAuth]_vars

\* werkzeug's check_password_hash, called by User.check_password (models.py:83-84)
CheckPasswordHash(password_hash, password) ==
    password_hash = GeneratePasswordHash(password)

\* login, POST (auth.py:63-83). With the right password login_user puts the
\* user id into the session, and the next statement, user.last_login =
\* db.datetime.utcnow(), raises AttributeError: the SQLAlchemy extension
\* object resolves unknown names in sqlalchemy and sqlalchemy.orm, and neither
\* has a name datetime. The request ends in a 500 without commit; the session
\* cookie is still sent unless the application propagates exceptions (debug or
\* testing mode). A form without a password makes check_password_hash raise.
Login(w, email, password, next_page, propagate_exceptions) ==
    /\ pending[w].op = "idle"
    /\ now < MaxTime
    /\ now' = now + 1
    /\ IF email # None /\ EmailExists(email)
         THEN LET user == First({u \in users : u.email = email})
              IN  IF password = None
                    THEN /\ response' = Response("login", 500, "AttributeError: encode")
                         /\ UNCHANGED session
                    ELSE IF CheckPasswordHash(user.password_hash, password)
                    THEN /\ session' = IF propagate_exceptions
                                         THEN session
                                         ELSE [session EXCEPT ![w] = user.id]
                         /\ response' = Response("login", 500, "AttributeError: datetime")
                    ELSE /\ response' = Response("login", 200, "Invalid email or password")
                         /\ UNCHANGED session
         ELSE /\ response' = Response("login", 200, "Invalid email or password")
              /\ UNCHANGED session
    /\ UNCHANGED <<users, jobs, bookmarks, applications, pending,
                   access, personality, company, fit,
                   scrape, cwd, repo, git, call, ats>>

\* logout, behind login_required (auth.py:85-90)
Logout(w) ==
    /\ pending[w].op = "idle"
    /\ session[w] # NoRow
    /\ session' = [session EXCEPT ![w] = NoRow]
    /\ response' = Response("logout", 302, "index")
    /\ UNCHANGED <<users, jobs, bookmarks, applications, pending, now,
                   access, personality, company, fit,
                   scrape, cwd, repo, git, call, ats>>

\* values a login form and its query string may carry
LoginEmailInputs == {"s1@x", "ea@x", "no@x", None}
LoginPasswordInputs == {"pw1", "pw3", None}
NextPageInputs == {None, "/jobs"}

\* two registered users, nobody logged in
InitLogin ==
    /\ QuietBackground
    /\ call = NoCalls
    /\ users = {u \in BoardUsers : u.id \in {1, 3}}
    /\ jobs = {}
    /\ bookmarks = {}
    /\ applications = {}
    /\ pending = [w \in Workers |-> Idle]
    /\ response = NoResponse
    /\ session = [w \in Workers |-> NoRow]
    /\ now = 0
    /\ access = NoCall
    /\ personality = None
    /\ company = None
    /\ fit = None

NextLogin ==
    \/ \E w \in Workers, email \in LoginEmailInputs,
          password \in LoginPasswordInputs, next_page \in NextPageInputs,
          propagate_exceptions \in BOOLEAN :
          Login(w, email, password, next_page, propagate_exceptions)
    \/ \E w \in Workers : Logout(w)

\* the login and logout requests
SpecLogin == InitLogin /\ [][NextLogin]_vars

\* dashboard, behind login_required (dashboard.py:10-19, 21-81)
Dashboard(w) ==
    /\ pending[w].op = "idle"
    /\ IF session[w] = NoRow
         THEN response' = Response("dashboard", 302, "auth.login")
         ELSE LET current_user == CHOOSE u \in users : u.id = session[w]
              IN  IF current_user.user_type = "job_seeker"
                    THEN response' = Response("dashboard", 200,
                                              "dashboard/job_seeker.html")
                    ELSE IF current_user.user_type = "employer"
                    THEN response' = Response("dashboard", 302, "ats.dashboard")
                    ELSE response' = Response("dashboard", 200,
                                              "dashboard/admin.html")
    /\ UNCHANGED <<users, jobs, bookmarks, applications, pending, session, now,
                   access, personality, company, fit,
                   scrape, cwd, repo, git, call, ats>>

NextDashboard ==
    \/ NextAuth
    \/ \E w \in Workers : Dashboard(w)

\* the registration requests and requests to /dashboard/
SpecDashboard == InitAuth /\ [][NextDashboard]_vars

-----------------------------------------------------------------------------
(* Subscriptions: User.has_access, upgrade_subscription *)

\* timedelta(days=30)
SubscriptionDays == 30

\* the plans upgrade_subscription accepts
Plans == {"premium", "family", "enterprise"}

PremiumUntilExpiry(user) ==
    /\ user.subscription_type \in {"premium", "family", "enterprise"}
    /\ user.subscription_expires # NoTime
    /\ now < user.subscription_expires

\* User.is_premium
IsPremium(user) == user.subscription_type \in {"premium", "family", "enterprise"}

TrialOfAnyType(user, utcnow) ==
    user.subscription_expires # NoTime /\ utcnow < user.subscription_expires

\* User.is_trial_active
IsTrialActive(user, utcnow) ==
    IF user.subscription_type # "free" THEN FALSE
    ELSE IF user.subscription_expires = NoTime THEN FALSE
    ELSE utcnow < user.subscription_expires

\* User.has_access
HasAccess(user, utcnow) == IsPremium(user) \/ IsTrialActive(user, utcnow)

\* a call of user.has_access()
CallHasAccess(user) ==
    /\ access' = [called |-> TRUE, user_id |-> user.id,
                  result |-> HasAccess(user, now)]
    /\ UNCHANGED <<users, jobs, bookmarks, applications, pending, response,
                   session, now, personality, company, fit,
                   scrape, cwd, repo, git, call, ats>>

\* upgrade_subscription (dashboard.py:169-185)
UpgradeSubscription(current_user, plan) ==
    /\ IF plan \in Plans
         THEN /\ users' = (users \ {current_user}) \cup
                    {[current_user EXCEPT
                         !.subscription_type = plan,
                         !.subscription_expires = now + SubscriptionDays]}
              /\ response' = Response("upgrade_subscription", 200, plan)
         ELSE /\ response' = Response("upgrade_subscription", 400, None)
              /\ UNCHANGED users
    /\ UNCHANGED <<jobs, bookmarks, applications, pending, session, now,
                   access, personality, company, fit,
                   scrape, cwd, repo, git, call, ats>>

\* days pass
Elapse(days) ==
    /\ now + days <= MaxDay
    /\ now' = now + days
    /\ UNCHANGED <<users, jobs, bookmarks, applications, pending, response,
                   session, access, personality, company, fit,
                   scrape, cwd, repo, git, call, ats>>

\* values the subscription columns of a User row may hold: the column default,
\* the plans, NULL and a string that names no plan
SubscriptionTypeValues == {"free"} \cup Plans \cup {None, "basic"}
SubscriptionExpiresValues == {NoTime, 1, 31}
PlanInputs == Plans \cup {"basic"}

\* one user, with any subscription columns
InitAccess ==
    /\ QuietBackground
    /\ call = NoCalls
    /\ \E st \in SubscriptionTypeValues, ex \in SubscriptionExpiresValues :
          users = {[User(1, "s1@x", "seeker1", GeneratePasswordHash("pw1"),
                         "job_seeker", None)
                      EXCEPT !.subscription_type = st,
                             !.subscription_expires = ex]}
    /\ jobs = {}
    /\ bookmarks = {}
    /\ applications = {}
    /\ pending = [w \in Workers |-> Idle]
    /\ response = NoResponse
    /\ session = [w \in Workers |-> NoRow]
    /\ now = 0
    /\ access = NoCall
    /\ personality = None
    /\ company = None
    /\ fit = None

NextAccess ==
    \/ \E user \in users : CallHasAccess(user)
    \/ \E current_user \in users, plan \in PlanInputs :
          UpgradeSubscription(current_user, plan)
    \/ \E days \in {1, SubscriptionDays} : Elapse(days)

\* has_access over time
SpecAccess == InitAccess /\ [][NextAccess]_vars

-----------------------------------------------------------------------------
(* The test-user script: create_test_users *)

\* timedelta(days=30), the trial of testuser
TrialDays == 30

\* the usernames the script deletes before it inserts
DeletedUsernames == {"testuser", "admin", "employer_test"}

\* the usernames the script inserts
TestUsernames == {"testuser", "admin", "employer_test", "premium_user"}

\* the four User objects the script adds to the session, in the order of the
\* db.session.add calls; rowids are given from first_id on
TestUsers(first_id, utcnow) ==
    << [User(first_id, "testuser@example.com", "testuser",
             GeneratePasswordHash("password123"), "job_seeker", None)
          EXCEPT !.subscription_expires = utcnow + TrialDays],
       [User(first_id + 1, "admin@relocjobs.com", "admin",
             GeneratePasswordHash("admin123"), "admin", None)
          EXCEPT !.subscription_type = "enterprise"],
       [User(first_id + 2, "employer@techcorp.com", "employer_test",
             GeneratePasswordHash("employer123"), "employer",
             "TechCorp International")
          EXCEPT !.subscription_type = "premium"],
       [User(first_id + 3, "premium@example.com", "premium_user",
             GeneratePasswordHash("premium123"), "job_seeker", None)
          EXCEPT !.subscription_type = "premium"] >>

\* one run of create_test_users: the bulk DELETE and its commit, then the four
\* INSERTs in one transaction; when an INSERT violates a unique constraint the
\* commit raises, the except branch prints the error and rolls the four back
CreateTestUsers ==
    /\ LET kept == {u \in users : u.username \notin DeletedUsernames}
           added == TestUsers(NextId(kept), now)
           accepted == \A i \in DOMAIN added :
                          UniqueUser(kept, added[i].email, added[i].username)
       IN  IF accepted
             THEN /\ users' = kept \cup {added[i] : i \in DOMAIN added}
                  /\ response' = Response("create_test_users", 0,
                                          "Test users created successfully!")
             ELSE /\ users' = kept
                  /\ response' = Response("create_test_users", 0,
                                          "Error creating users")
    /\ UNCHANGED <<jobs, bookmarks, applications, pending, session, now,
                   access, personality, company, fit,
                   scrape, cwd, repo, git, call, ats>>

\* a database that is empty or holds one registered user
InitTestUsers ==
    /\ QuietBackground
    /\ call = NoCalls
    /\ users \in { {}, {User(1, "a@x", "ann", GeneratePasswordHash("pw"),
                             "job_seeker", None)} }
    /\ jobs = {}
    /\ bookmarks = {}
    /\ applications = {}
    /\ pending = [w \in Workers |-> Idle]
    /\ response = NoResponse
    /\ session = [w \in Workers |-> NoRow]
    /\ now = 0
    /\ access = NoCall
    /\ personality = None
    /\ company = None
    /\ fit = None

NextTestUsers ==
    \/ CreateTestUsers
    \/ \E days \in {1, TrialDays} : Elapse(days)

\* runs of the script, with days passing between them
SpecTestUsers == InitTestUsers /\ [][NextTestUsers]_vars

-----------------------------------------------------------------------------
(* Cultural fit: CulturalIntelligence._calculate_cultural_fit *)

\* A Python str is a sequence of one-character strings.
\* str.lower(), on the letters the texts of the model use
LowerChar(c) ==
    CASE c = "B" -> "b"
      [] c = "C" -> "c"
      [] c = "D" -> "d"
      [] c = "E" -> "e"
      [] c = "F" -> "f"
      [] c = "I" -> "i"
      [] c = "M" -> "m"
      [] c = "P" -> "p"
      [] c = "W" -> "w"
      [] OTHER -> c

Lower(str) == [i \in DOMAIN str |-> LowerChar(str[i])]

\* sub in str
Contains(sub, str) ==
    \E i \in 1..(Len(str) - Len(sub) + 1) :
        SubSeq(str, i, i + Len(sub) - 1) = sub

\* the texts the profile fields are tested against and take
FLAT_ == <<"f", "l", "a", "t">>
BALANCE_ == <<"b", "a", "l", "a", "n", "c", "e">>
COLLABORATIVE_TEXT == <<"C", "o", "l", "l", "a", "b", "o", "r", "a", "t", "i", "v", "e">>
FLAT_TEXT == <<"I", " ", "p", "r", "e", "f", "e", "r", " ", "F", "l", "a", "t", " ", "h", "i", "e", "r", "a", "r", "c", "h", "i", "e", "s">>
BOUNDARIES_TEXT == <<"C", "l", "e", "a", "r", " ", "b", "o", "u", "n", "d", "a", "r", "i", "e", "s">>
BALANCE_TEXT == <<"W", "o", "r", "k", "-", "l", "i", "f", "e", " ", "B", "a", "l", "a", "n", "c", "e">>

\* sum(scores.values()) of a dict
RECURSIVE SumValues(_)
SumValues(dict) ==
    IF DOMAIN dict = {} THEN 0
    ELSE LET k == CHOOSE k \in DOMAIN dict : TRUE
         IN  dict[k] + SumValues([x \in DOMAIN dict \ {k} |-> dict[x]])

\* the dict scores after the four blocks that fill it
\* (cultural_intelligence.py:130-153)
FactorScores(p, c) ==
    LET collaboration ==
            IF p.work_style = "COLLABORATIVE"
              THEN "collaboration" :> c.collaboration_level * 10
            ELSE IF p.work_style = "INDEPENDENT"
              THEN "collaboration" :> (10 - c.collaboration_level) * 10
            ELSE <<>>
        communication ==
            IF p.communication_style = "DIRECT"
              THEN IF c.communication_style = "direct"
                     THEN "communication" :> 90
                     ELSE "communication" :> 60
              ELSE <<>>
        hierarchy ==
            IF Contains(FLAT_, Lower(p.leadership_preference))
              THEN "hierarchy" :> (10 - c.hierarchy_level) * 10
              ELSE "hierarchy" :> c.hierarchy_level * 10
        work_life ==
            IF Contains(BALANCE_, Lower(p.work_life_balance))
              THEN "work_life" :> c.work_life_balance * 10
              ELSE <<>>
    IN  collaboration @@ communication @@ hierarchy @@ work_life

\* overall_score = sum(scores.values()) / len(scores), kept as the fraction
\* num/den: the terms are integers, and a comparison of the quotient with an
\* integer k is the comparison of num with k * den
OverallScore(scores) ==
    [num |-> SumValues(scores), den |-> Cardinality(DOMAIN scores)]

StrictCompatibility(score) ==
    IF score.num > 85 * score.den THEN "Excellent Fit"
    ELSE IF score.num > 70 * score.den THEN "Good Fit"
    ELSE IF score.num > 55 * score.den THEN "Moderate Fit"
    ELSE "Challenging Fit"

\* the if/elif chain on overall_score (cultural_intelligence.py:159-166)
Compatibility(score) ==
    IF score.num >= 85 * score.den THEN "Excellent Fit"
    ELSE IF score.num >= 70 * score.den THEN "Good Fit"
    ELSE IF score.num >= 55 * score.den THEN "Moderate Fit"
    ELSE "Challenging Fit"

\* _calculate_cultural_fit: the fields of the result the score decides;
\* a dict with no entry makes the division raise ZeroDivisionError
CalculateCulturalFitResult(p, c) ==
    LET scores == FactorScores(p, c)
    IN  IF DOMAIN scores = {}
          THEN [called |-> TRUE, raised |-> TRUE, scores |-> scores,
                overall_fit_score |-> [num |-> 0, den |-> 0],
                compatibility_level |-> None]
          ELSE [called |-> TRUE, raised |-> FALSE, scores |-> scores,
                overall_fit_score |-> OverallScore(scores),
                compatibility_level |-> Compatibility(OverallScore(scores))]

\* _calculate_cultural_fit was not called yet
NoFit == [called |-> FALSE, raised |-> FALSE, scores |-> <<>>,
          overall_fit_score |-> [num |-> 0, den |-> 0],
          compatibility_level |-> None]

\* a call of _calculate_cultural_fit(personality, company)
CalculateCulturalFit ==
    /\ ~ fit.called
    /\ fit' = CalculateCulturalFitResult(personality, company)
    /\ UNCHANGED <<users, jobs, bookmarks, applications, pending, response,
                   session, now, access, personality, company,
                   scrape, cwd, repo, git, call, ats>>

\* values of the fields of PersonalityProfile the score reads
WorkStyles == {"COLLABORATIVE", "INDEPENDENT", "DIRECTIVE"}
CommunicationStyles == {"DIRECT", "FORMAL"}
LeadershipTexts == {COLLABORATIVE_TEXT, FLAT_TEXT}
WorkLifeTexts == {BOUNDARIES_TEXT, BALANCE_TEXT}

\* values of the fields of CompanyCulture the score reads
Levels == 0..LevelBound
CompanyCommunicationStyles == {"direct", "informal"}

\* any personality profile and any company record
InitFit ==
    /\ QuietBackground
    /\ call = NoCalls
    /\ personality \in [work_style : WorkStyles,
                        communication_style : CommunicationStyles,
                        leadership_preference : LeadershipTexts,
                        work_life_balance : WorkLifeTexts]
    /\ company \in [hierarchy_level : Levels,
                    collaboration_level : Levels,
                    work_life_balance : Levels,
                    communication_style : CompanyCommunicationStyles]
    /\ fit = NoFit
    /\ users = {}
    /\ jobs = {}
    /\ bookmarks = {}
    /\ applications = {}
    /\ pending = [w \in Workers |-> Idle]
    /\ response = NoResponse
    /\ session = [w \in Workers |-> NoRow]
    /\ now = 0
    /\ access = NoCall

NextFit == CalculateCulturalFit

\* the cultural fit of any profile with any company
SpecFit == InitFit /\ [][NextFit]_vars

-----------------------------------------------------------------------------
(* The job scraper: search_relocation_jobs *)

\* return jobs[:20]
ResultLimit == 20

\* s[:n]
Take(s, n) == SubSeq(s, 1, IF Len(s) < n THEN Len(s) ELSE n)

\* the dict a source builds for one job, reduced to the keys search_jobs
\* compares
JobData(title, company_name, job_url) ==
    [title |-> title, company |-> company_name, job_url |-> job_url]

\* SearchResultItems of a USAJobs answer: ApplyURI is absent, or a list of
\* strings, on which [0].get raises AttributeError (job_scraper.py:74)
UsajobsItems ==
    { [title |-> t, company |-> "GSA", apply_uri |-> a] :
         t \in {"QA", "Dev"}, a \in {"missing", "strings"} }

\* data of a JSearch answer: has_relocation says whether one of the relocation
\* keywords occurs in the description or the title (job_scraper.py:137-141);
\* a null job_city makes the concatenation at job_scraper.py:150 raise TypeError
JsearchItems ==
    { [job_title |-> "Dev", employer_name |-> "Acme", job_apply_link |-> "u1",
       has_relocation |-> r, job_city |-> c] :
         r \in BOOLEAN, c \in {"Berlin", None} }

\* lists of at most two items
ItemLists(items) ==
    {<<>>} \cup {<<a>> : a \in items} \cup {<<a, b>> : a \in items, b \in items}

\* what requests.get and response.json() can do: an answer with a status
\* code and a JSON body, an answer whose body is not JSON, or an exception
\* (Timeout, ConnectionError)
HttpOutcomes(items) ==
    { [kind |-> "response", status_code |-> c, items |-> l] :
         c \in {200, 429, 500}, l \in ItemLists(items) }
    \cup { [kind |-> "badjson", status_code |-> 200, items |-> <<>>],
           [kind |-> "exception", status_code |-> 0, items |-> <<>>] }

\* the for loop of search_usajobs_api (job_scraper.py:67-84): jobs appended
\* until an item raises
RECURSIVE UsajobsLoop(_)
UsajobsLoop(items) ==
    IF items = <<>> \/ Head(items).apply_uri = "strings"
      THEN <<>>
      ELSE <<JobData(Head(items).title, Head(items).company, "")>>
           \o UsajobsLoop(Tail(items))

\* the for loop of search_jsearch_api (job_scraper.py:135-169)
RECURSIVE JsearchLoop(_)
JsearchLoop(items) ==
    IF items = <<>> THEN <<>>
    ELSE IF ~ Head(items).has_relocation THEN JsearchLoop(Tail(items))
    ELSE IF Head(items).job_city = None THEN <<>>
    ELSE <<JobData(Head(items).job_title, Head(items).employer_name,
                   Head(items).job_apply_link)>>
         \o JsearchLoop(Tail(items))

\* an item of the answer makes the loop raise
LoopRaises(source, items) ==
    \E i \in DOMAIN items :
       IF source = "usajobs"
         THEN items[i].apply_uri = "strings"
         ELSE items[i].has_relocation /\ items[i].job_city = None

\* the body of the source's try block raises
BodyRaises(source, outcome) ==
    \/ outcome.kind \in {"exception", "badjson"}
    \/ /\ outcome.status_code = 200
       /\ LoopRaises(source, outcome.items)

CatchHttpOnly(outcome) == outcome.kind = "exception"

\* except Exception as e: in search_usajobs_api and search_jsearch_api
\* (job_scraper.py:86, 174) catches whatever the body raises
SourceCatches(outcome) == outcome.kind \in {"exception", "badjson", "response"}

\* the jobs list a source function has built when it returns or raises
SourceJobs(source, outcome) ==
    IF outcome.kind = "response" /\ outcome.status_code = 200
      THEN IF source = "usajobs" THEN UsajobsLoop(outcome.items)
                                 ELSE JsearchLoop(outcome.items)
      ELSE <<>>

\* the source logs an error: in its except clause, or, for JSearch only, on
\* a status code other than 200 (job_scraper.py:87, 172, 175)
SourceLogsError(source, outcome) ==
    \/ BodyRaises(source, outcome) /\ SourceCatches(outcome)
    \/ /\ source = "jsearch"
       /\ outcome.kind = "response"
       /\ outcome.status_code # 200

\* search_relocation_jobs after the call of a source function: its result
\* extends jobs and the next source is tried, or the exception it let out is
\* caught by the outer except, which ends the search (job_scraper.py:16-35)
AfterSource(source, outcome, next) ==
    LET escapes == BodyRaises(source, outcome) /\ ~ SourceCatches(outcome)
        found == IF escapes THEN <<>> ELSE SourceJobs(source, outcome)
        sent == [scrape EXCEPT
                    !.requests[source] = @ + 1,
                    !.called = @ \cup {source},
                    !.failed = IF outcome.kind = "response" /\ outcome.status_code = 200
                                 THEN @ ELSE @ \cup {source},
                    !.errors = IF SourceLogsError(source, outcome)
                                 THEN @ \cup {source} ELSE @]
    IN  IF escapes
          THEN [sent EXCEPT !.pc = "return", !.errors = @ \cup {"search"}]
          ELSE IF source = "usajobs"
          THEN [sent EXCEPT !.pc = next, !.usa_jobs = found, !.jobs = @ \o found]
          ELSE [sent EXCEPT !.pc = next, !.rapidapi_jobs = found, !.jobs = @ \o found]

\* search_relocation_jobs is called; rapidapi_key says whether RAPIDAPI_KEY is
\* set in the environment
SearchRelocationJobs(rapidapi_key) ==
    /\ scrape.pc \in {"idle", "returned"}
    /\ scrape' = [NoScrape EXCEPT !.pc = "usajobs", !.rapidapi_key = rapidapi_key]
    /\ UNCHANGED <<users, jobs, bookmarks, applications, pending, response,
                   session, now, access, personality, company, fit,
                   cwd, repo, git, call, ats>>

\* usa_jobs = search_usajobs_api(job_type, location); jobs.extend(usa_jobs)
\* and the test of rapidapi_key (job_scraper.py:18-28)
SearchUsajobsApi(outcome) ==
    /\ scrape.pc = "usajobs"
    /\ scrape' = AfterSource("usajobs", outcome,
                             IF scrape.rapidapi_key THEN "jsearch" ELSE "linkup")
    /\ UNCHANGED <<users, jobs, bookmarks, applications, pending, response,
                   session, now, access, personality, company, fit,
                   cwd, repo, git, call, ats>>

\* rapidapi_jobs = search_jsearch_api(...); jobs.extend(rapidapi_jobs)
\* (job_scraper.py:25-26)
SearchJsearchApi(outcome) ==
    /\ scrape.pc = "jsearch"
    /\ scrape' = AfterSource("jsearch", outcome, "linkup")
    /\ UNCHANGED <<users, jobs, bookmarks, applications, pending, response,
                   session, now, access, personality, company, fit,
                   cwd, repo, git, call, ats>>

\* linkup_jobs = search_linkup_api(...): a placeholder that sends no request
\* and returns an empty list (job_scraper.py:31-32, 179-204)
SearchLinkupApi ==
    /\ scrape.pc = "linkup"
    /\ scrape' = [scrape EXCEPT !.pc = "return",
                                !.called = @ \cup {"linkup"},
                                !.linkup_jobs = <<>>]
    /\ UNCHANGED <<users, jobs, bookmarks, applications, pending, response,
                   session, now, access, personality, company, fit,
                   cwd, repo, git, call, ats>>

\* return jobs[:20] (job_scraper.py:37)
ReturnJobs ==
    /\ scrape.pc = "return"
    /\ scrape' = [scrape EXCEPT !.pc = "returned",
                                !.returned = Take(scrape.jobs, ResultLimit)]
    /\ UNCHANGED <<users, jobs, bookmarks, applications, pending, response,
                   session, now, access, personality, company, fit,
                   cwd, repo, git, call, ats>>

InitScrape ==
    /\ QuietBackground
    /\ call = NoCalls
    /\ users = {}
    /\ jobs = {}
    /\ bookmarks = {}
    /\ applications = {}
    /\ pending = [w \in Workers |-> Idle]
    /\ response = NoResponse
    /\ session = [w \in Workers |-> NoRow]
    /\ now = 0
    /\ access = NoCall
    /\ personality = None
    /\ company = None
    /\ fit = None

NextScrape ==
    \/ \E rapidapi_key \in BOOLEAN : SearchRelocationJobs(rapidapi_key)
    \/ \E outcome \in HttpOutcomes(UsajobsItems) : SearchUsajobsApi(outcome)
    \/ \E outcome \in HttpOutcomes(JsearchItems) : SearchJsearchApi(outcome)
    \/ SearchLinkupApi
    \/ ReturnJobs

\* calls of search_relocation_jobs, one after the other
SpecScrape == InitScrape /\ [][NextScrape]_vars

-----------------------------------------------------------------------------
(* Saving scraped jobs: search_jobs *)

\* a Job row as search_jobs fills it, reduced to the columns it compares
ScrapedJob(id, job_data) ==
    [id |-> id, title |-> job_data.title, company |-> job_data.company,
     job_url |-> job_data.job_url]

\* Job.query.filter_by(title=..., company=..., job_url=...).first() finds a
\* row among the committed rows and the rows this session has added, which the
\* query flushes first; a None value compares as IS NULL and matches no row
ExistingJob(rows, added, job_data) ==
    /\ job_data.job_url # None
    /\ \/ \E j \in rows : /\ j.title = job_data.title
                          /\ j.company = job_data.company
                          /\ j.job_url = job_data.job_url
       \/ \E i \in DOMAIN added : added[i] = job_data

\* nullable=False on Job.job_url: the INSERTs of the added rows are accepted
NotNullJobs(added) == \A i \in DOMAIN added : added[i].job_url # None

\* search_jobs up to the return of search_relocation_jobs (routes.py:69-79)
SearchJobs(w, new_jobs) ==
    /\ pending[w].op = "idle"
    /\ pending' = [pending EXCEPT ![w] =
                      [Idle EXCEPT !.op = "search_jobs", !.new_jobs = new_jobs]]
    /\ UNCHANGED <<users, jobs, bookmarks, applications, response, session, now,
                   access, personality, company, fit, scrape, cwd, repo, git,
                   call, ats>>

\* one pass of the for loop (routes.py:83-110); the flush before the query
\* raises when an added row has no job_url, and the except clause ends the
\* request with nothing committed (routes.py:115-119)
SearchJobsLoop(w) ==
    /\ pending[w].op = "search_jobs"
    /\ pending[w].new_jobs # <<>>
    /\ LET job_data == Head(pending[w].new_jobs)
       IN  IF ~ NotNullJobs(pending[w].added)
             THEN /\ pending' = [pending EXCEPT ![w] = Idle]
                  /\ response' = Response("search_jobs", 302, "error")
             ELSE /\ pending' = [pending EXCEPT
                        ![w].new_jobs = Tail(@),
                        ![w].added =
                           IF ExistingJob(jobs, pending[w].added, job_data)
                             THEN @ ELSE Append(@, job_data)]
                  /\ UNCHANGED response
    /\ UNCHANGED <<users, jobs, bookmarks, applications, session, now,
                   access, personality, company, fit, scrape, cwd, repo, git,
                   call, ats>>

\* db.session.commit() and the redirect (routes.py:112-119)
SearchJobsCommit(w) ==
    /\ pending[w].op = "search_jobs"
    /\ pending[w].new_jobs = <<>>
    /\ IF NotNullJobs(pending[w].added)
         THEN /\ NextId(jobs) + Len(pending[w].added) - 1 <= MaxJobId
              /\ jobs' = jobs \cup
                    { ScrapedJob(NextId(jobs) + i - 1, pending[w].added[i]) :
                         i \in DOMAIN pending[w].added }
              /\ response' = Response("search_jobs", 302, "success")
         ELSE /\ response' = Response("search_jobs", 302, "error")
              /\ UNCHANGED jobs
    /\ pending' = [pending EXCEPT ![w] = Idle]
    /\ UNCHANGED <<users, bookmarks, applications, session, now,
                   access, personality, company, fit, scrape, cwd, repo, git,
                   call, ats>>

\* the dicts search_relocation_jobs may return: the last one has a null
\* job_apply_link
JobDataInputs ==
    { JobData("QA", "GSA", ""), JobData("Dev", "Acme", "u1"),
      JobData("Dev", "Acme", None) }

\* an empty job table
InitSearch ==
    /\ QuietBackground
    /\ call = NoCalls
    /\ users = {}
    /\ jobs = {}
    /\ bookmarks = {}
    /\ applications = {}
    /\ pending = [w \in Workers |-> Idle]
    /\ response = NoResponse
    /\ session = [w \in Workers |-> NoRow]
    /\ now = 0
    /\ access = NoCall
    /\ personality = None
    /\ company = None
    /\ fit = None

NextSearch ==
    \/ \E w \in Workers, new_jobs \in ItemLists(JobDataInputs) :
          SearchJobs(w, new_jobs)
    \/ \E w \in Workers : SearchJobsLoop(w)
    \/ \E w \in Workers : SearchJobsCommit(w)

\* search_jobs requests served by the worker threads
SpecSearch == InitSearch /\ [][NextSearch]_vars

-----------------------------------------------------------------------------
(* The daily git job: AutoGitPusher.git_add_commit_push *)

\* how a subprocess.run call ends: exit code 0, another exit code,
\* subprocess.TimeoutExpired, or another exception (git is not installed, ...)
RunOutcomes == {"exit0", "exit1", "timeout", "error"}

\* how os.chdir(project_dir) ends: it returns, or raises OSError
ChdirOutcomes == {"ok", "error"}

\* what git status --porcelain can print, as characters
StdoutInputs == { <<>>, <<"\n">>, <<" ", "M", " ", "f", "\n">> }

\* the characters str.strip() removes
Whitespace == {" ", "\t", "\n"}

RECURSIVE LStrip(_)
LStrip(s) == IF s # <<>> /\ Head(s) \in Whitespace THEN LStrip(Tail(s)) ELSE s

RECURSIVE RStrip(_)
RStrip(s) ==
    IF s # <<>> /\ s[Len(s)] \in Whitespace
      THEN RStrip(SubSeq(s, 1, Len(s) - 1))
      ELSE s

\* str.strip()
Strip(s) == RStrip(LStrip(s))

ChangesAlways(stdout) == FALSE

\* if not result.stdout.strip(): (auto_git_pusher.py:39)
NoChanges(stdout) == Strip(stdout) = <<>>

AnyExit(outcome) == outcome \in {"exit0", "exit1"}

\* the call returned and returncode != 0 is false (auto_git_pusher.py:34, 49, 57, 65)
Succeeded(outcome) == outcome = "exit0"

CatchTimeoutOnly(outcome) == outcome = "timeout"

\* except subprocess.TimeoutExpired / except Exception (auto_git_pusher.py:72-77)
Caught(outcome) == outcome \in {"timeout", "error"}

\* the invocation once cmd has ended other than with exit code 0: the error is
\* logged and False returned, or the exception leaves the function
Failed(inv, cmd, outcome) ==
    LET ran == Append(inv.ran, <<cmd, outcome>>)
    IN  IF outcome = "exit1"
          THEN [inv EXCEPT !.pc = "returned", !.ran = ran,
                           !.log = Append(@, <<"error", cmd>>),
                           !.result = "False"]
          ELSE IF Caught(outcome)
          THEN [inv EXCEPT !.pc = "returned", !.ran = ran,
                           !.log = Append(@, <<"error", outcome>>),
                           !.result = "False"]
          ELSE [inv EXCEPT !.pc = "returned", !.ran = ran, !.raised = TRUE]

\* manual_git_push answers with what manual_push() returned, or with
\* success false when it raised (auto_git_pusher.py:129-142); the scheduler's
\* thread answers nobody
Answer(t, inv) ==
    IF t = "request" /\ inv.pc = "returned"
      THEN response' = Response("manual_git_push", 200,
                                IF inv.result = "True" THEN "true" ELSE "false")
      ELSE UNCHANGED response

\* git_add_commit_push is entered, by the CronTrigger in the scheduler's thread
\* or by manual_git_push in a request thread, and changes to the project
\* directory (auto_git_pusher.py:21-28)
GitAddCommitPush(t, outcome) ==
    /\ git[t].pc \in {"idle", "returned"}
    /\ LET inv == IF outcome = "ok"
                    THEN [NoInvocation EXCEPT !.pc = "status"]
                    ELSE IF Caught(outcome)
                    THEN [NoInvocation EXCEPT !.pc = "returned",
                                              !.log = <<<<"error", outcome>>>>,
                                              !.result = "False"]
                    ELSE [NoInvocation EXCEPT !.pc = "returned", !.raised = TRUE]
       IN  /\ git' = [git EXCEPT ![t] = inv]
           /\ Answer(t, inv)
    /\ cwd' = IF outcome = "ok" THEN ProjectDir ELSE cwd
    /\ UNCHANGED <<users, jobs, bookmarks, applications, pending, session, now,
                   access, personality, company, fit, scrape, repo, call, ats>>

\* git status --porcelain and the two tests of its result (auto_git_pusher.py:31-43)
GitStatus(t, outcome, stdout) ==
    /\ git[t].pc = "status"
    /\ LET inv == IF ~ Succeeded(outcome)
                    THEN Failed(git[t], "status", outcome)
                    ELSE IF NoChanges(stdout)
                    THEN [git[t] EXCEPT !.pc = "returned",
                                        !.stdout = stdout,
                                        !.ran = Append(@, <<"status", outcome>>),
                                        !.log = Append(@, <<"info", "no changes">>),
                                        !.result = "True"]
                    ELSE [git[t] EXCEPT !.pc = "add",
                                        !.stdout = stdout,
                                        !.ran = Append(@, <<"status", outcome>>),
                                        !.log = Append(@, <<"info", "found changes">>)]
       IN  /\ git' = [git EXCEPT ![t] = inv]
           /\ Answer(t, inv)
    /\ UNCHANGED <<users, jobs, bookmarks, applications, pending, session, now,
                   access, personality, company, fit, scrape, cwd, repo,
                   call, ats>>

\* git add . (auto_git_pusher.py:46-51); exit code 0 leaves the changes staged
GitAdd(t, outcome) ==
    /\ git[t].pc = "add"
    /\ LET inv == IF ~ Succeeded(outcome)
                    THEN Failed(git[t], "add", outcome)
                    ELSE [git[t] EXCEPT !.pc = "commit",
                                        !.ran = Append(@, <<"add", outcome>>)]
       IN  /\ git' = [git EXCEPT ![t] = inv]
           /\ Answer(t, inv)
    /\ repo' = IF outcome = "exit0" THEN [repo EXCEPT !.staged = TRUE] ELSE repo
    /\ UNCHANGED <<users, jobs, bookmarks, applications, pending, session, now,
                   access, personality, company, fit, scrape, cwd, call, ats>>

\* git commit -m ... (auto_git_pusher.py:54-59); git exits with 0 only when
\* there is something staged to commit
GitCommit(t, outcome) ==
    /\ git[t].pc = "commit"
    /\ outcome = "exit0" => repo.staged
    /\ LET inv == IF ~ Succeeded(outcome)
                    THEN Failed(git[t], "commit", outcome)
                    ELSE [git[t] EXCEPT !.pc = "push",
                                        !.ran = Append(@, <<"commit", outcome>>)]
       IN  /\ git' = [git EXCEPT ![t] = inv]
           /\ Answer(t, inv)
    /\ repo' = IF outcome = "exit0"
                 THEN [repo EXCEPT !.staged = FALSE, !.ahead = TRUE]
                 ELSE repo
    /\ UNCHANGED <<users, jobs, bookmarks, applications, pending, session, now,
                   access, personality, company, fit, scrape, cwd, call, ats>>

\* git push and the final return (auto_git_pusher.py:62-70)
GitPush(t, outcome) ==
    /\ git[t].pc = "push"
    /\ LET inv == IF ~ Succeeded(outcome)
                    THEN Failed(git[t], "push", outcome)
                    ELSE [git[t] EXCEPT !.pc = "returned",
                                        !.ran = Append(@, <<"push", outcome>>),
                                        !.log = Append(@, <<"info", "pushed">>),
                                        !.result = "True"]
       IN  /\ git' = [git EXCEPT ![t] = inv]
           /\ Answer(t, inv)
    /\ repo' = IF outcome = "exit0" THEN [repo EXCEPT !.ahead = FALSE] ELSE repo
    /\ UNCHANGED <<users, jobs, bookmarks, applications, pending, session, now,
                   access, personality, company, fit, scrape, cwd, call, ats>>

\* the server just started: init_auto_git_pusher has scheduled the daily job
\* and added the route /admin/manual-git-push
InitGit ==
    /\ QuietBackground
    /\ call = NoCalls
    /\ users = {}
    /\ jobs = {}
    /\ bookmarks = {}
    /\ applications = {}
    /\ pending = [w \in Workers |-> Idle]
    /\ response = NoResponse
    /\ session = [w \in Workers |-> NoRow]
    /\ now = 0
    /\ access = NoCall
    /\ personality = None
    /\ company = None
    /\ fit = None

NextGit ==
    \/ \E t \in Threads, outcome \in ChdirOutcomes : GitAddCommitPush(t, outcome)
    \/ \E t \in Threads, outcome \in RunOutcomes, stdout \in StdoutInputs :
          GitStatus(t, outcome, stdout)
    \/ \E t \in Threads, outcome \in RunOutcomes : GitAdd(t, outcome)
    \/ \E t \in Threads, outcome \in RunOutcomes : GitCommit(t, outcome)
    \/ \E t \in Threads, outcome \in RunOutcomes : GitPush(t, outcome)

\* the scheduled job and the manual push, interleaved
SpecGit == InitGit /\ [][NextGit]_vars

-----------------------------------------------------------------------------
(* Visa eligibility: VisaNavigator.assess_eligibility *)

\* a < b for the fractions a and b, whose denominators are positive
FractionLess(a, b) == a.num * b.den < b.num * a.den

Unsorted(keyed) == [i \in DOMAIN keyed |-> keyed[i].value]

\* list.sort(key=..., reverse=True) on a list given as [key, value] records,
\* the keys being fractions: larger keys first, and elements of equal key in
\* the order they had (the sort is stable)
SortReverse(keyed) ==
    LET n == Len(keyed)
        Position(i) ==
            Cardinality({j \in 1..n : FractionLess(keyed[i].key, keyed[j].key)})
            + Cardinality({j \in 1..(i - 1) :
                  /\ ~ FractionLess(keyed[i].key, keyed[j].key)
                  /\ ~ FractionLess(keyed[j].key, keyed[i].key)})
            + 1
    IN  [p \in 1..n |-> keyed[CHOOSE i \in 1..n : Position(i) = p].value]

\* the words _check_requirement looks for, and texts of a profile
BACHELOR_ == <<"b", "a", "c", "h", "e", "l", "o", "r">>
MASTER_ == <<"m", "a", "s", "t", "e", "r">>
PHD_ == <<"p", "h", "d">>
ENGLISH_ == <<"e", "n", "g", "l", "i", "s", "h">>
NO_TEXT == <<>>
BACHELOR_TEXT == <<"B", "a", "c", "h", "e", "l", "o", "r">>
MASTER_TEXT == <<"M", "a", "s", "t", "e", "r">>
PHD_TEXT == <<"P", "h", "D">>
DIPLOMA_TEXT == <<"D", "i", "p", "l", "o", "m", "a">>
ENGLISH_TEXT == <<"E", "n", "g", "l", "i", "s", "h">>
FRENCH_TEXT == <<"F", "r", "e", "n", "c", "h">>

VisaRequirement(requirement_type, description, mandatory) ==
    [requirement_type |-> requirement_type, description |-> description,
     mandatory |-> mandatory]

\* _initialize_visa_requirements (visa_navigator.py:330-364); the visa types
\* that are no key of the dict have no requirements
VisaRequirements(visa_type) ==
    CASE visa_type = "H1B" ->
           << VisaRequirement("education", "Bachelor's degree or equivalent", TRUE),
              VisaRequirement("job_offer", "Valid job offer from US employer", TRUE),
              VisaRequirement("experience", "Relevant work experience", FALSE),
              VisaRequirement("salary", "Prevailing wage requirement", TRUE) >>
      [] visa_type = "SKILLED_WORKER_UK" ->
           << VisaRequirement("job_offer", "Job offer from licensed UK sponsor", TRUE),
              VisaRequirement("salary", "Minimum salary threshold 25,600", TRUE),
              VisaRequirement("language", "English language proficiency", TRUE),
              VisaRequirement("education", "Relevant qualification", TRUE) >>
      [] visa_type = "EXPRESS_ENTRY_CA" ->
           << VisaRequirement("language", "English/French proficiency", TRUE),
              VisaRequirement("education", "Educational credential assessment", TRUE),
              VisaRequirement("experience", "1+ years skilled work experience", TRUE),
              VisaRequirement("funds", "Proof of settlement funds", TRUE) >>
      [] OTHER -> <<>>

\* the words among bachelor, master, phd, english (looked for in
\* description.lower()) and 3 years, 5 years, 2 years, 60000, 25600 (looked
\* for in description) that a description of the table holds: the salary
\* threshold is written 25,600, and no description names a number of years
\* that is looked for
WordsIn(description) ==
    CASE description = "Bachelor's degree or equivalent" -> {"bachelor"}
      [] description = "English language proficiency" -> {"english"}
      [] description = "English/French proficiency" -> {"english"}
      [] OTHER -> {}

\* _check_requirement (visa_navigator.py:128-178); a branch whose inner tests
\* all fail falls through to the final return False
CheckRequirement(profile, requirement) ==
    LET req_type == requirement.requirement_type
        words == WordsIn(requirement.description)
        education == Lower(profile.education)
    IN  IF req_type = "education"
          THEN IF "bachelor" \in words
                 THEN \/ Contains(BACHELOR_, education)
                      \/ Contains(MASTER_, education)
                      \/ Contains(PHD_, education)
               ELSE IF "master" \in words
                 THEN Contains(MASTER_, education) \/ Contains(PHD_, education)
               ELSE IF "phd" \in words
                 THEN Contains(PHD_, education)
               ELSE FALSE
        ELSE IF req_type = "experience"
          THEN IF "3 years" \in words THEN profile.years_experience >= 3
               ELSE IF "5 years" \in words THEN profile.years_experience >= 5
               ELSE IF "2 years" \in words THEN profile.years_experience >= 2
               ELSE FALSE
        ELSE IF req_type = "language"
          THEN IF "english" \in words
                 THEN \E i \in DOMAIN profile.languages :
                         Contains(ENGLISH_, Lower(profile.languages[i]))
                 ELSE FALSE
        ELSE IF req_type = "job_offer"
          THEN profile.has_job_offer
        ELSE IF req_type = "salary"
          THEN IF "60000" \in words THEN profile.offered_salary >= 60000
               ELSE IF "25600" \in words THEN profile.offered_salary >= 25600
               ELSE FALSE
        ELSE FALSE

EqualPoints(req) == 100

\* 100 if req.mandatory else 50 (visa_navigator.py:90, 93)
Points(req) == IF req.mandatory THEN 100 ELSE 50

\* the locals of _assess_single_visa before its loop
NoneAssessed ==
    [score |-> 0, max_score |-> 0, requirements_met |-> <<>>,
     requirements_missing |-> <<>>, next_steps |-> <<>>]

\* the loop of _assess_single_visa over the requirements still to visit
\* (visa_navigator.py:89-98)
RECURSIVE AssessLoop(_, _, _)
AssessLoop(profile, requirements, locals) ==
    IF requirements = <<>> THEN locals
    ELSE LET req == Head(requirements)
             counted == [locals EXCEPT !.max_score = @ + Points(req)]
         IN  AssessLoop(profile, Tail(requirements),
                IF CheckRequirement(profile, req)
                  THEN [counted EXCEPT
                           !.score = @ + Points(req),
                           !.requirements_met = Append(@, req.description)]
                  ELSE [counted EXCEPT
                           !.requirements_missing = Append(@, req.description),
                           !.next_steps =
                              IF req.mandatory
                                THEN Append(@, <<"Obtain", req.description>>)
                                ELSE @])

\* (score / max_score * 100) if max_score > 0 else 0, kept as a fraction
EligibilityScore(score, max_score) ==
    IF max_score > 0 THEN [num |-> score * 100, den |-> max_score]
    ELSE [num |-> 0, den |-> 1]

\* the if/elif chain on eligibility_score (visa_navigator.py:104-111)
EligibilityStatus(eligibility_score) ==
    IF eligibility_score.num >= 90 * eligibility_score.den THEN "Highly Eligible"
    ELSE IF eligibility_score.num >= 70 * eligibility_score.den THEN "Eligible"
    ELSE IF eligibility_score.num >= 50 * eligibility_score.den
      THEN "Partially Eligible"
    ELSE "Not Eligible"

\* _assess_single_visa (visa_navigator.py:77-126)
AssessSingleVisa(profile, visa_type) ==
    LET locals == AssessLoop(profile, VisaRequirements(visa_type), NoneAssessed)
        eligibility_score == EligibilityScore(locals.score, locals.max_score)
    IN  [visa_type |-> visa_type,
         eligibility_score |-> eligibility_score,
         status |-> EligibilityStatus(eligibility_score),
         requirements_met |-> locals.requirements_met,
         requirements_missing |-> locals.requirements_missing,
         next_steps |-> Take(locals.next_steps, 5)]

\* assess_eligibility (visa_navigator.py:65-75), applied to the arguments of
\* the call
AssessEligibility ==
    /\ call.visa_navigator.op = "assess_eligibility"
    /\ ~ call.visa_navigator.returned
    /\ LET user_profile == call.visa_navigator.user_profile
           target_visas == call.visa_navigator.target_visas
           results == [i \in DOMAIN target_visas |->
                          AssessSingleVisa(user_profile, target_visas[i])]
       IN  call' = [call EXCEPT
                       !.visa_navigator.returned = TRUE,
                       !.visa_navigator.results = SortReverse(
                          [i \in DOMAIN results |->
                              [key |-> results[i].eligibility_score,
                               value |-> results[i]]])]
    /\ UNCHANGED <<users, jobs, bookmarks, applications, pending, response,
                   session, now, access, personality, company, fit,
                   scrape, cwd, repo, git, ats>>

\* the longest list of visa types or of company names passed in one call
MaxTargets == 3

\* the lists over a set of at most MaxTargets elements
Lists(S) == UNION {[1..n -> S] : n \in 0..MaxTargets}

\* members of VisaType with requirements, and one without
VisaTypes == {"H1B", "SKILLED_WORKER_UK", "EXPRESS_ENTRY_CA", "L1"}

\* the keys of a user profile that _check_requirement reads
UserProfiles ==
    [education : {NO_TEXT, BACHELOR_TEXT, MASTER_TEXT, PHD_TEXT, DIPLOMA_TEXT},
     years_experience : {0, 5},
     languages : {<<>>, <<ENGLISH_TEXT>>, <<FRENCH_TEXT, ENGLISH_TEXT>>},
     has_job_offer : BOOLEAN,
     offered_salary : {0, 60000}]

\* the calls of assess_eligibility, before they return
AssessEligibilityCalls ==
    [op : {"assess_eligibility"}, returned : {FALSE},
     user_profile : UserProfiles, target_visas : Lists(VisaTypes),
     results : {<<>>}]

\* an empty database and an idle server
Library ==
    /\ QuietBackground
    /\ users = {}
    /\ jobs = {}
    /\ bookmarks = {}
    /\ applications = {}
    /\ pending = [w \in Workers |-> Idle]
    /\ response = NoResponse
    /\ session = [w \in Workers |-> NoRow]
    /\ now = 0
    /\ access = NoCall
    /\ personality = None
    /\ company = None
    /\ fit = NoFit

\* any call of assess_eligibility
InitVisa ==
    /\ Library
    /\ call \in [visa_navigator : AssessEligibilityCalls,
                  cultural_ai : {NotCalled}]

NextVisa == AssessEligibility

\* assess_eligibility on any profile and any list of visa types
SpecVisa == InitVisa /\ [][NextVisa]_vars

-----------------------------------------------------------------------------
(* Company ranking: CulturalIntelligence.match_company_culture *)

\* the fields of CompanyCulture that _calculate_cultural_fit reads, and the name
CompanyCulture(company_name, hierarchy_level, collaboration_level, work_life_balance, communication_style) ==
    [company_name |-> company_name, hierarchy_level |-> hierarchy_level,
     collaboration_level |-> collaboration_level,
     work_life_balance |-> work_life_balance,
     communication_style |-> communication_style]

\* _initialize_company_database (cultural_intelligence.py:481-530)
CompanyDatabase ==
    ("Google" :> CompanyCulture("Google", 3, 8, 7, "informal"))
    @@ ("Microsoft" :> CompanyCulture("Microsoft", 4, 9, 8, "professional"))
    @@ ("Goldman Sachs" :> CompanyCulture("Goldman Sachs", 8, 7, 4, "formal"))

\* the loop of match_company_culture over the names still to visit
\* (cultural_intelligence.py:114-120): a name that is no key of the database
\* is skipped
RECURSIVE MatchLoop(_, _, _)
MatchLoop(profile, target_companies, results) ==
    IF target_companies = <<>> THEN results
    ELSE LET company_name == Head(target_companies)
         IN  MatchLoop(profile, Tail(target_companies),
                IF company_name \notin DOMAIN CompanyDatabase
                  THEN results
                  ELSE LET fit_result == CalculateCulturalFitResult(
                                            profile, CompanyDatabase[company_name])
                       IN  Append(results,
                              [company_name |->
                                  CompanyDatabase[company_name].company_name,
                               overall_fit_score |-> fit_result.overall_fit_score,
                               compatibility_level |->
                                  fit_result.compatibility_level]))

\* match_company_culture (cultural_intelligence.py:108-124), applied to the
\* arguments of the call
MatchCompanyCulture ==
    /\ call.cultural_ai.op = "match_company_culture"
    /\ ~ call.cultural_ai.returned
    /\ LET results == MatchLoop(call.cultural_ai.personality,
                                call.cultural_ai.target_companies, <<>>)
       IN  call' = [call EXCEPT
                       !.cultural_ai.returned = TRUE,
                       !.cultural_ai.results = SortReverse(
                          [i \in DOMAIN results |->
                              [key |-> results[i].overall_fit_score,
                               value |-> results[i]]])]
    /\ UNCHANGED <<users, jobs, bookmarks, applications, pending, response,
                   session, now, access, personality, company, fit,
                   scrape, cwd, repo, git, ats>>

\* two personality profiles that rank the companies differently
RankedPersonalities ==
    { [work_style |-> "COLLABORATIVE", communication_style |-> "DIRECT",
       leadership_preference |-> FLAT_TEXT, work_life_balance |-> BALANCE_TEXT],
      [work_style |-> "INDEPENDENT", communication_style |-> "FORMAL",
       leadership_preference |-> COLLABORATIVE_TEXT,
       work_life_balance |-> BOUNDARIES_TEXT] }

\* two keys of the company database and a name that is none
RankedCompanies == {"Google", "Goldman Sachs", "Acme"}

\* the calls of match_company_culture, before they return
MatchCompanyCultureCalls ==
    [op : {"match_company_culture"}, returned : {FALSE},
     personality : RankedPersonalities,
     target_companies : Lists(RankedCompanies), results : {<<>>}]

\* a profile that meets no requirement and one that meets some
RankedProfiles ==
    { [education |-> NO_TEXT, years_experience |-> 0, languages |-> <<>>,
       has_job_offer |-> FALSE, offered_salary |-> 0],
      [education |-> BACHELOR_TEXT, years_experience |-> 5,
       languages |-> <<ENGLISH_TEXT>>, has_job_offer |-> TRUE,
       offered_salary |-> 60000] }

\* a visa type with requirements and one without
RankedVisaTypes == {"H1B", "L1"}

\* any call of match_company_culture and any call of assess_eligibility
InitRanking ==
    /\ Library
    /\ call \in [visa_navigator :
                    [op : {"assess_eligibility"}, returned : {FALSE},
                     user_profile : RankedProfiles,
                     target_visas : Lists(RankedVisaTypes), results : {<<>>}],
                 cultural_ai : MatchCompanyCultureCalls]

NextRanking ==
    \/ MatchCompanyCulture
    \/ AssessEligibility

\* the two ranking functions
SpecRanking == InitRanking /\ [][NextRanking]_vars

-----------------------------------------------------------------------------
(* Cultural analysis: api_cultural_analysis *)

\* str.lower() on the country names of the requests below; the others are
\* in lower case already
CountryLower(country) ==
    CASE country = "Sweden" -> "sweden"
      [] country = "JAPAN" -> "japan"
      [] OTHER -> country

\* the lists of countries the branches test (routes_enhanced_simplified.py:163-225)
DirectCultures == {"germany", "netherlands", "sweden", "denmark", "norway"}
IndirectCultures == {"japan", "south korea", "thailand", "indonesia"}
ModeratelyDirectCultures ==
    {"united states", "canada", "australia", "united kingdom"}
BalancedCultures == {"denmark", "sweden", "norway", "netherlands", "germany"}
WorkIntensiveCultures == {"united states", "singapore", "south korea", "japan"}
HierarchicalCultures == {"japan", "south korea", "singapore", "germany"}
FlatCultures == {"denmark", "sweden", "norway", "netherlands", "australia"}
CollaborativeCultures == {"sweden", "denmark", "netherlands", "canada"}
DirectiveCultures == {"germany", "japan", "singapore"}

\* max(10, min(100, x))
Clamp(x) == IF x > 100 THEN 100 ELSE IF x < 10 THEN 10 ELSE x

SameAsFit(overall_fit) == overall_fit

\* max(10, 100 - scores['overall_fit'])
AdaptationDifficulty(overall_fit) ==
    IF 100 - overall_fit < 10 THEN 10 ELSE 100 - overall_fit

\* the body of the loop over target_countries: the dict scores of one country
\* (routes_enhanced_simplified.py:154-243)
CulturalScores(country, communication_style, work_life_balance, hierarchy_comfort, leadership_style) ==
    LET c == CountryLower(country)
        communication ==
            IF c \in DirectCultures
              THEN IF communication_style = "direct" THEN 85
                   ELSE IF communication_style = "diplomatic" THEN 65
                   ELSE 45
            ELSE IF c \in IndirectCultures
              THEN IF communication_style = "indirect" THEN 85
                   ELSE IF communication_style = "diplomatic" THEN 75
                   ELSE 40
            ELSE IF c \in ModeratelyDirectCultures
              THEN IF communication_style \in {"direct", "diplomatic"} THEN 80
                   ELSE 60
            ELSE 50
        balance ==
            IF c \in BalancedCultures
              THEN IF work_life_balance \in {"balanced", "life_focused"} THEN 90
                   ELSE 50
            ELSE IF c \in WorkIntensiveCultures
              THEN IF work_life_balance = "work_focused" THEN 85
                   ELSE IF work_life_balance = "balanced" THEN 70
                   ELSE 45
            ELSE 50
        hierarchy ==
            IF c \in HierarchicalCultures
              THEN IF hierarchy_comfort \in {"high", "moderate"} THEN 80 ELSE 45
            ELSE IF c \in FlatCultures
              THEN IF hierarchy_comfort = "low" THEN 85
                   ELSE IF hierarchy_comfort = "moderate" THEN 70
                   ELSE 50
            ELSE 50
        leadership_bonus ==
            IF leadership_style = "collaborative" /\ c \in CollaborativeCultures
              THEN 10
            ELSE IF leadership_style = "directive" /\ c \in DirectiveCultures
              THEN 8
            ELSE IF leadership_style = "consultative" THEN 5
            ELSE 0
        hierarchy_comfort_ == hierarchy + leadership_bonus
        communication_style_ == communication + (leadership_bonus \div 2)
        overall_fit ==
            (communication_style_ + balance + hierarchy_comfort_) \div 3
    IN  [overall_fit |-> Clamp(overall_fit),
         communication_style |-> Clamp(communication_style_),
         work_life_balance |-> Clamp(balance),
         hierarchy_comfort |-> Clamp(hierarchy_comfort_),
         adaptation_difficulty |-> Clamp(AdaptationDifficulty(overall_fit))]

\* api_cultural_analysis (routes_enhanced_simplified.py:133-301): the
\* cultural_scores of the response; a country that is no string makes
\* country.lower() raise, and the except branch answers 500
ApiCulturalAnalysis(target_countries, communication_style, work_life_balance, hierarchy_comfort, leadership_style) ==
    /\ IF \E i \in DOMAIN target_countries : target_countries[i] = None
         THEN response' = Response("api_cultural_analysis", 500,
                                   "Cultural analysis failed")
         ELSE response' = Response("api_cultural_analysis", 200,
                 [cultural_scores |->
                     [country \in {target_countries[i] :
                                      i \in DOMAIN target_countries} |->
                         CulturalScores(country, communication_style,
                                        work_life_balance, hierarchy_comfort,
                                        leadership_style)]])
    /\ UNCHANGED <<users, jobs, bookmarks, applications, pending, session, now,
                   access, personality, company, fit,
                   scrape, cwd, repo, git, call, ats>>

\* the countries the branches name, and one they do not
Countries ==
    DirectCultures \cup IndirectCultures \cup ModeratelyDirectCultures
    \cup {"singapore", "france"}

\* values of target_countries: no country, one country, two countries, a
\* country named twice, names in other than lower case, and null
TargetCountriesInputs ==
    {<<>>, <<"Sweden">>, <<"JAPAN">>, <<"Sweden", "japan">>,
     <<"japan", "japan">>, <<None>>}
    \cup {<<country>> : country \in Countries}

\* values of the four style fields: those the branches name, and one other
CommunicationStyleInputs == {"direct", "diplomatic", "indirect", "other"}
WorkLifeBalanceInputs == {"balanced", "life_focused", "work_focused", "other"}
HierarchyComfortInputs == {"high", "moderate", "low", "other"}
LeadershipStyleInputs == {"collaborative", "directive", "consultative", "other"}

\* no analysis was requested yet
InitAnalysis ==
    /\ Library
    /\ call = NoCalls

NextAnalysis ==
    \E target_countries \in TargetCountriesInputs,
       communication_style \in CommunicationStyleInputs,
       work_life_balance \in WorkLifeBalanceInputs,
       hierarchy_comfort \in HierarchyComfortInputs,
       leadership_style \in LeadershipStyleInputs :
       ApiCulturalAnalysis(target_countries, communication_style,
                           work_life_balance, hierarchy_comfort,
                           leadership_style)

\* requests to /ai-tools/api/cultural-analysis
SpecAnalysis == InitAnalysis /\ [][NextAnalysis]_vars

-----------------------------------------------------------------------------
(* The in-memory ATS: ATSSystem.create_job_posting, submit_application *)

\* the last second of the clock, and the largest applications_count
MaxSecond == 1
MaxApplications == 2

\* f"JOB_{datetime.now().strftime('%Y%m%d_%H%M%S')}": the prefix and the
\* clock reading, to the second
JobIdAt(second) == [prefix |-> "JOB", stamp |-> second]

\* f"CAND_{datetime.now().strftime('%Y%m%d_%H%M%S')}"
CandidateIdAt(second) == [prefix |-> "CAND", stamp |-> second]

\* application_data.get('job_id') of a dict without that key
NoJobId == [prefix |-> "None", stamp |-> 0]

\* ApplicationStatus.APPLIED.value
ApplicationStatusValue(status) ==
    CASE status = "APPLIED" -> "Applied"
      [] status = "SCREENING" -> "Screening"
      [] status = "REJECTED" -> "Rejected"

\* create_job_posting (ats_system.py:116-143); now is the clock in seconds
CreateJobPosting(title) ==
    /\ LET job_id == JobIdAt(now)
           job == [job_id |-> job_id, title |-> title, posted_date |-> now,
                   status |-> "Active", applications_count |-> 0]
       IN  ats' = [ats EXCEPT !.job_postings = (job_id :> job) @@ @]
    /\ UNCHANGED <<users, jobs, bookmarks, applications, pending, response,
                   session, now, access, personality, company, fit,
                   scrape, cwd, repo, git, call>>

\* submit_application (ats_system.py:145-186)
SubmitApplication(name, job_id) ==
    /\ job_id \in DOMAIN ats.job_postings
       => ats.job_postings[job_id].applications_count < MaxApplications
    /\ LET candidate_id == CandidateIdAt(now)
           candidate == [candidate_id |-> candidate_id, name |-> name,
                         applied_date |-> now]
           entry == [status |-> "APPLIED",
                     stage_history |->
                        << [status |-> ApplicationStatusValue("APPLIED"),
                            date |-> now] >>,
                     rating |-> None, notes |-> <<>>]
           pipeline == IF job_id \notin DOMAIN ats.hiring_pipeline
                         THEN (job_id :> <<>>) @@ ats.hiring_pipeline
                         ELSE ats.hiring_pipeline
       IN  ats' = [candidates |-> (candidate_id :> candidate) @@ ats.candidates,
                   hiring_pipeline |->
                      [pipeline EXCEPT ![job_id] = (candidate_id :> entry) @@ @],
                   job_postings |->
                      IF job_id \in DOMAIN ats.job_postings
                        THEN [ats.job_postings EXCEPT
                                 ![job_id].applications_count = @ + 1]
                        ELSE ats.job_postings]
    /\ UNCHANGED <<users, jobs, bookmarks, applications, pending, response,
                   session, now, access, personality, company, fit,
                   scrape, cwd, repo, git, call>>

\* a second passes
ClockTick ==
    /\ now < MaxSecond
    /\ now' = now + 1
    /\ UNCHANGED <<users, jobs, bookmarks, applications, pending, response,
                   session, access, personality, company, fit,
                   scrape, cwd, repo, git, call, ats>>

TitleInputs == {"t1"}
NameInputs == {"n1"}

\* a new ATSSystem
InitATS ==
    /\ Library
    /\ call = NoCalls

NextATS ==
    \/ \E title \in TitleInputs : CreateJobPosting(title)
    \/ \E name \in NameInputs,
          job_id \in DOMAIN ats.job_postings \cup {NoJobId} :
          SubmitApplication(name, job_id)
    \/ ClockTick

\* calls of the two methods on one ATSSystem, as the clock advances
SpecATS == InitATS /\ [][NextATS]_vars

-----------------------------------------------------------------------------
(* Claims about the job board *)

\* C1: in every reachable state there is at most one JobBookmark row for any
\* (user_id, job_id) pair, whatever the interleaving of toggle_bookmark requests
C1_UniqueBookmark ==
    \A b1 \in bookmarks, b2 \in bookmarks :
        (b1.user_id = b2.user_id /\ b1.job_id = b2.job_id) => b1 = b2

\* two interleaved requests both tried to insert the pair; the second was refused
C1_Witness ==
    /\ response = Response("toggle_bookmark", 500, "IntegrityError: UNIQUE")
    /\ bookmarks # {}

\* C3: an apply_to_job request by a job seeker who already has a JobApplication
\* for the job is answered 400, adds no row and changes no row
C3_DuplicateApplyRejected ==
    [][\A w \in Workers, caller \in users, job_id \in JobIdInputs,
          cover_letter \in CoverLetterInputs, resume_url \in ResumeUrlInputs :
          ( /\ ApplyToJobBegin(w, caller, job_id, cover_letter, resume_url)
            /\ caller.user_type = "job_seeker"
            /\ \E a \in applications : a.user_id = caller.id /\ a.job_id = job_id )
          => /\ response' = Response("apply_to_job", 400, None)
             /\ applications' = applications
             /\ pending'[w].op = "idle"]_vars

\* a second application for a job already applied to has just been refused
C3_Witness ==
    /\ response = Response("apply_to_job", 400, None)
    /\ applications # {}

\* C4: update_application_status changes an application only for an employer
\* whose company_name is the company of the application's job; any other caller
\* is answered 403 and status, notes and last_updated stay as they were
C4_OnlyOwningEmployerUpdates ==
    [][LET Owner(caller, app) ==
              /\ caller.user_type = "employer"
              /\ \E j \in jobs : j.id = app.job_id /\ j.company = caller.company_name
       IN  /\ \A caller \in users, app \in applications,
                 new_status \in StatusInputs, notes \in NotesInputs :
                 ( /\ UpdateApplicationStatus(caller, app.id, new_status, notes)
                   /\ ~ Owner(caller, app) )
                 => /\ response' = Response("update_application_status", 403, None)
                    /\ applications' = applications
           /\ \A app \in applications :
                 app \notin applications'
                 => \E caller \in users, new_status \in StatusInputs,
                       notes \in NotesInputs :
                       /\ Owner(caller, app)
                       /\ UpdateApplicationStatus(caller, app.id, new_status, notes)]_vars

\* an update of an existing application has just been refused
C4_Witness ==
    /\ response = Response("update_application_status", 403, None)
    /\ \E a \in applications : a.status = "applied" /\ a.last_updated = a.applied_at

\* C5: a successful update_application_status sets status, sets notes only when
\* non-empty notes are supplied, stamps last_updated with the current time, adds
\* no row recording the prior status and changes nothing else
C5_UpdateEffect ==
    [][\A caller \in users, app \in applications,
          new_status \in StatusInputs, notes \in NotesInputs :
          ( /\ UpdateApplicationStatus(caller, app.id, new_status, notes)
            /\ response'.code = 200 )
          => \E new \in applications' :
                /\ new.id = app.id
                /\ new.status = new_status
                /\ new.notes = IF notes = "" THEN app.notes ELSE notes
                /\ new.last_updated = now
                /\ new.user_id = app.user_id
                /\ new.job_id = app.job_id
                /\ new.cover_letter = app.cover_letter
                /\ new.resume_url = app.resume_url
                /\ new.applied_at = app.applied_at
                /\ applications' \ {new} = applications \ {app}
                /\ Cardinality(applications') = Cardinality(applications)
                /\ UNCHANGED <<users, jobs, bookmarks, pending, session>>]_vars

\* one of two applications was updated with notes, the other is as created
C5_Witness ==
    /\ response.op = "update_application_status"
    /\ response.code = 200
    /\ \E a \in applications, b \in applications :
          /\ a.notes = "n1"
          /\ a.last_updated > a.applied_at
          /\ b.id # a.id
          /\ b.notes = None
          /\ b.last_updated = b.applied_at

\* C6: for all statuses s and t of the five, an authorised update of an
\* application in status s to t succeeds and leaves it in status t
C6_AnyTransition ==
    [][\A caller \in users, app \in applications, t \in Statuses,
          notes \in NotesInputs :
          ( /\ UpdateApplicationStatus(caller, app.id, t, notes)
            /\ app.status \in Statuses
            /\ caller.user_type = "employer"
            /\ \E j \in jobs : j.id = app.job_id /\ j.company = caller.company_name )
          => /\ response' = Response("update_application_status", 200, t)
             /\ \E new \in applications' : new.id = app.id /\ new.status = t
             /\ \A new \in applications' : new.id = app.id => new.status = t]_vars

\* an application was moved back to applied by an update
C6_Witness ==
    /\ response = Response("update_application_status", 200, "applied")
    /\ \E a \in applications :
          a.status = "applied" /\ a.last_updated > a.applied_at

\* C16: an update_application_status request by the owning employer whose
\* status is missing or is not one of the five is answered 400 and changes no
\* application, whether or not notes came with it
C16_InvalidStatusRejected ==
    [][\A caller \in users, app \in applications,
          new_status \in StatusInputs \ Statuses, notes \in NotesInputs :
          ( /\ caller.user_type = "employer"
            /\ \E j \in jobs : j.id = app.job_id /\ j.company = caller.company_name
            /\ UpdateApplicationStatus(caller, app.id, new_status, notes) )
          => /\ response' = Response("update_application_status", 400, None)
             /\ applications' = applications]_vars

\* an update was answered 400 while an application updated earlier still has
\* the status, notes and last_updated that earlier update gave it
C16_Witness ==
    /\ response = Response("update_application_status", 400, None)
    /\ \E a \in applications :
          /\ a.status = "interview"
          /\ a.notes = "n1"
          /\ a.last_updated > a.applied_at
          /\ a.last_updated < now - 1

\* C17: a row inserted by apply_to_job has status applied, and every
\* JobApplication row of every reachable state has one of the five statuses
C17_StatusInEnum ==
    /\ [](\A a \in applications : a.status \in Statuses)
    /\ [][\A a \in applications' :
             (~ \E b \in applications : b.id = a.id) => a.status = "applied"]_vars

\* an application left applied by an update, next to one still as created
C17_Witness ==
    \E a \in applications, b \in applications :
       /\ a.status = "offer"
       /\ a.last_updated > a.applied_at
       /\ b.status = "applied"
       /\ b.last_updated = b.applied_at

\* C18: toggle_bookmark and apply_to_job answer 403 to a caller whose user_type
\* is not job_seeker and leave the bookmarks and applications as they are; every
\* bookmark, application and request in progress is a job seeker's
C18_JobSeekersOnly ==
    /\ [](/\ \A b \in bookmarks :
                \E u \in users : u.id = b.user_id /\ u.user_type = "job_seeker"
          /\ \A a \in applications :
                \E u \in users : u.id = a.user_id /\ u.user_type = "job_seeker"
          /\ \A w \in Workers :
                pending[w].op \in {"toggle_bookmark", "apply_to_job"}
                => \E u \in users : /\ u.id = pending[w].user_id
                                    /\ u.user_type = "job_seeker")
    /\ [][/\ \A w \in Workers, caller \in users, job_id \in JobIdInputs :
                ( /\ caller.user_type # "job_seeker"
                  /\ ToggleBookmarkBegin(w, caller, job_id) )
                => /\ response' = Response("toggle_bookmark", 403, None)
                   /\ UNCHANGED <<bookmarks, applications, pending>>
          /\ \A w \in Workers, caller \in users, job_id \in JobIdInputs,
                cover_letter \in CoverLetterInputs, resume_url \in ResumeUrlInputs :
                ( /\ caller.user_type # "job_seeker"
                  /\ ApplyToJobBegin(w, caller, job_id, cover_letter, resume_url) )
                => /\ response' = Response("apply_to_job", 403, None)
                   /\ UNCHANGED <<bookmarks, applications, pending>>]_vars

\* a request was answered 403 on a board that holds a bookmark and an application
C18_Witness ==
    /\ response.code = 403
    /\ response.op \in {"toggle_bookmark", "apply_to_job"}
    /\ bookmarks # {}
    /\ applications # {}

\* C24: in every reachable state, whatever the interleaving of apply_to_job
\* requests, there is at most one JobApplication row for any (user_id, job_id)
C24_OneApplicationPerPair ==
    \A a1 \in applications, a2 \in applications :
        (a1.user_id = a2.user_id /\ a1.job_id = a2.job_id) => a1 = a2

-----------------------------------------------------------------------------
(* Claims about the job scraper *)

\* C12: search_relocation_jobs lets no exception out and sends each source at
\* most one request; a source whose request raised or was answered with a
\* status other than 200 contributes no jobs; and whatever the earlier sources
\* did, the later ones are still called: JSearch when RAPIDAPI_KEY is set, and
\* LinkUp
C12_SourcesFailSilently ==
    /\ ~ scrape.raised
    /\ scrape.requests["usajobs"] <= 1
    /\ scrape.requests["jsearch"] <= 1
    /\ "usajobs" \in scrape.failed => scrape.usa_jobs = <<>>
    /\ "jsearch" \in scrape.failed => scrape.rapidapi_jobs = <<>>
    /\ \A i \in DOMAIN scrape.jobs :
          /\ scrape.jobs[i].company = "GSA" => "usajobs" \notin scrape.failed
          /\ scrape.jobs[i].company = "Acme" => "jsearch" \notin scrape.failed
    /\ scrape.pc \in {"return", "returned"}
       => /\ scrape.called = {"usajobs", "linkup"} \cup
                             (IF scrape.rapidapi_key THEN {"jsearch"} ELSE {})
          /\ scrape.requests["usajobs"] = 1
          /\ scrape.requests["jsearch"] = IF scrape.rapidapi_key THEN 1 ELSE 0

\* the search returned the jobs of JSearch after the USAJobs request had
\* failed, with one request sent to each
C12_Witness ==
    /\ scrape.pc = "returned"
    /\ "usajobs" \in scrape.failed
    /\ "jsearch" \notin scrape.failed
    /\ scrape.requests = [usajobs |-> 1, jsearch |-> 1]
    /\ scrape.returned = <<JobData("Dev", "Acme", "u1")>>
    /\ "linkup" \in scrape.called

-----------------------------------------------------------------------------
(* Claims about the daily git job *)

\* C13, as claimed: the scheduled job and the request handlers share no
\* mutable state: no step of a request thread changes the working directory or
\* the repository, which the job in the scheduler's thread reads and writes
C13_NoSharedMutableState ==
    [][git'["request"] # git["request"] => UNCHANGED <<cwd, repo>>]_vars

\* C14: an invocation never lets an exception out and runs no git command
\* twice; once a command ended with a non-zero exit code, a timeout or another
\* exception, or os.chdir raised, it has logged an error and returned False
C14_BestEffortNoRetry ==
    \A t \in Threads :
       LET inv == git[t]
       IN  /\ ~ inv.raised
           /\ \A i, j \in DOMAIN inv.ran :
                 inv.ran[i][1] = inv.ran[j][1] => i = j
           /\ ( \/ \E i \in DOMAIN inv.ran : inv.ran[i][2] # "exit0"
                \/ inv.pc = "returned" /\ inv.ran = <<>> )
              => /\ inv.pc = "returned"
                 /\ inv.result = "False"
                 /\ inv.log # <<>>
                 /\ inv.log[Len(inv.log)][1] = "error"

\* the scheduled job returned False after git push timed out, and the manual
\* push returned False after git was found missing at git status
C14_Witness ==
    /\ git["scheduler"].pc = "returned"
    /\ git["scheduler"].result = "False"
    /\ git["scheduler"].ran = << <<"status", "exit0">>, <<"add", "exit0">>,
                                 <<"commit", "exit0">>, <<"push", "timeout">> >>
    /\ git["request"].pc = "returned"
    /\ git["request"].result = "False"
    /\ git["request"].ran = << <<"status", "error">> >>

\* C19: the commands an invocation has run are the first ones of status, add,
\* commit, push, in that order and once each; all but the last one run exited
\* with code 0; and an invocation that found changes has returned True only
\* if its push exited with code 0
C19_CommandOrder ==
    \A t \in Threads :
       LET inv == git[t]
           order == <<"status", "add", "commit", "push">>
       IN  /\ Len(inv.ran) <= 4
           /\ \A i \in DOMAIN inv.ran :
                 /\ inv.ran[i][1] = order[i]
                 /\ i < Len(inv.ran) => inv.ran[i][2] = "exit0"
           /\ ( /\ inv.result = "True"
                /\ \E i \in DOMAIN inv.stdout : inv.stdout[i] \notin Whitespace )
              => /\ Len(inv.ran) = 4
                 /\ inv.ran[4] = <<"push", "exit0">>

\* an invocation ran all four commands and returned True, while the other one
\* stopped at a failed commit
C19_Witness ==
    \E t \in Threads, u \in Threads :
       /\ git[t].result = "True"
       /\ Len(git[t].ran) = 4
       /\ git[u].result = "False"
       /\ Len(git[u].ran) = 3
       /\ git[u].ran[3] = <<"commit", "exit1">>

\* C20: when git status exits with code 0 and prints nothing but whitespace,
\* the invocation returns True at once, having run no other command, and the
\* repository is left as it was
C20_NoChangesNoCommands ==
    [][\A t \in Threads, stdout \in StdoutInputs :
          ( /\ \A i \in DOMAIN stdout : stdout[i] \in Whitespace
            /\ GitStatus(t, "exit0", stdout) )
          => /\ git'[t].pc = "returned"
             /\ git'[t].result = "True"
             /\ git'[t].ran = << <<"status", "exit0">> >>
             /\ repo' = repo]_vars

\* the scheduled job returned True after a git status that printed nothing
C20_Witness ==
    /\ git["scheduler"].pc = "returned"
    /\ git["scheduler"].result = "True"
    /\ git["scheduler"].ran = << <<"status", "exit0">> >>
    /\ git["scheduler"].stdout = <<>>

\* C27: two executions of git_add_commit_push never overlap: the scheduler's
\* thread and a request thread are never both between the entry of the
\* function and its return
C27_NoOverlap ==
    ~ \A t \in Threads : git[t].pc \in {"status", "add", "commit", "push"}

-----------------------------------------------------------------------------
(* Claims about registration *)

\* C7: whatever the interleaving of register requests, no two User rows share
\* an email and no two share a username, and a register request whose email or
\* username is taken, when it queries or when it commits, creates no user and
\* logs nobody in
C7_UniqueEmailAndUsername ==
    /\ [](\A u1 \in users, u2 \in users :
            (u1.email = u2.email \/ u1.username = u2.username) => u1 = u2)
    /\ [][/\ \A w \in Workers, email \in EmailInputs, username \in UsernameInputs,
                password \in PasswordInputs, user_type \in UserTypeInputs,
                company_name \in CompanyInputs :
                ( /\ RegisterBegin(w, email, username, password, user_type,
                                   company_name)
                  /\ \E u \in users : u.email = email \/ u.username = username )
                => /\ users' = users
                   /\ session' = session
                   /\ pending'[w].op = "idle"
          /\ \A w \in Workers :
                ( /\ RegisterCommit(w)
                  /\ \E u \in users : \/ u.email = pending[w].email
                                      \/ u.username = pending[w].username )
                => /\ users' = users
                   /\ session' = session]_vars

\* two interleaved registrations passed the queries with the same email or
\* username; the first was stored and the second was refused at commit
C7_Witness ==
    /\ response = Response("register", 500, "IntegrityError: UNIQUE")
    /\ Cardinality(users) = 1
    /\ \A w \in Workers : pending[w].op = "idle"
    /\ \E w \in Workers : session[w] # NoRow
    /\ \E w \in Workers : session[w] = NoRow

\* C8, as claimed: every User's user_type is one of job_seeker, employer, admin
C8_UserTypeInEnum == \A u \in users : u.user_type \in UserTypes

\* C15, as claimed: a login with the email and the password of a user u logs u
\* in, stamps u's last_login with the current time and answers with a
\* redirect; any other login leaves the session and the users as they were
C15_LoginIffCredentials ==
    [][\A w \in Workers, email \in LoginEmailInputs,
          password \in LoginPasswordInputs, next_page \in NextPageInputs,
          propagate_exceptions \in BOOLEAN :
          Login(w, email, password, next_page, propagate_exceptions)
          => IF \E u \in users :
                   /\ u.email = email
                   /\ u.password_hash = GeneratePasswordHash(password)
               THEN \E u \in users :
                       /\ u.email = email
                       /\ session'[w] = u.id
                       /\ response'.code = 302
                       /\ \E v \in users' : v.id = u.id /\ v.last_login = now
               ELSE /\ session' = session
                    /\ users' = users]_vars

\* C28: a dashboard request of a logged-in user is answered with the job-seeker
\* dashboard for a job_seeker, with a redirect to the ATS dashboard for an
\* employer, and with the admin template only for a user whose user_type is
\* admin
C28_AdminTemplateForAdminOnly ==
    [][\A w \in Workers :
          (Dashboard(w) /\ session[w] # NoRow)
          => \E current_user \in users :
                /\ current_user.id = session[w]
                /\ current_user.user_type = "job_seeker"
                   => response' = Response("dashboard", 200,
                                           "dashboard/job_seeker.html")
                /\ current_user.user_type = "employer"
                   => response' = Response("dashboard", 302, "ats.dashboard")
                /\ response'.body = "dashboard/admin.html"
                   => current_user.user_type = "admin"]_vars

-----------------------------------------------------------------------------
(* Claims about subscriptions *)

\* C2, as claimed: has_access() returns true iff the subscription is premium,
\* family or enterprise, or subscription_expires is set and not yet reached,
\* for every subscription_type
C2_AccessIffPremiumOrUnexpired ==
    [][\A user \in users :
          CallHasAccess(user)
          => access'.result =
                ( \/ user.subscription_type \in {"premium", "family", "enterprise"}
                  \/ ( /\ user.subscription_expires # NoTime
                       /\ now < user.subscription_expires ) )]_vars

\* C2, amended: has_access() returns true iff the subscription is premium,
\* family or enterprise, or subscription_type is free and subscription_expires
\* is set and not yet reached; for every other subscription_type it is false
C2_AccessIffPremiumOrFreeTrial ==
    [][\A user \in users :
          CallHasAccess(user)
          => access'.result =
                ( \/ user.subscription_type \in {"premium", "family", "enterprise"}
                  \/ ( /\ user.subscription_type = "free"
                       /\ user.subscription_expires # NoTime
                       /\ now < user.subscription_expires ) )]_vars

\* has_access() answered false for a user whose subscription_type names no plan
\* and whose subscription_expires lies ahead
C2_Witness ==
    /\ access.called
    /\ ~ access.result
    /\ \E user \in users :
          /\ user.id = access.user_id
          /\ user.subscription_type \notin {"free", "premium", "family", "enterprise"}
          /\ user.subscription_expires # NoTime
          /\ now < user.subscription_expires

\* C25: an upgrade_subscription request with plan premium, family or enterprise
\* is answered 200 and sets subscription_type to the plan and
\* subscription_expires to 30 days ahead; from then on the user's
\* subscription_type stays one of the three plans and has_access() returns true
\* at every later time, past subscription_expires included; a request with any
\* other plan is answered 400 and leaves both columns as they were
C25_UpgradeKeepsAccess ==
    [][/\ \A current_user \in users, plan \in PlanInputs :
             UpgradeSubscription(current_user, plan)
             => IF plan \in {"premium", "family", "enterprise"}
                  THEN /\ response'.code = 200
                       /\ \E new \in users' :
                             /\ new.id = current_user.id
                             /\ new.subscription_type = plan
                             /\ new.subscription_expires = now + 30
                       /\ Cardinality(users') = Cardinality(users)
                  ELSE /\ response'.code = 400
                       /\ users' = users
       /\ \A user \in users :
             user.subscription_type \in {"premium", "family", "enterprise"}
             => /\ \A new \in users' :
                      new.id = user.id
                      => new.subscription_type \in {"premium", "family", "enterprise"}
                /\ CallHasAccess(user) => access'.result = TRUE]_vars

\* has_access() answered true for a user upgraded on day 0, after the
\* subscription_expires the upgrade set (day 30) has passed
C25_Witness ==
    /\ response.op = "upgrade_subscription"
    /\ response.code = 200
    /\ access.called
    /\ access.result
    /\ \E user \in users :
          /\ user.id = access.user_id
          /\ user.subscription_type = response.body
          /\ user.subscription_expires = 30
          /\ now > user.subscription_expires

\* C29: after a run of create_test_users, the first or a later one, each of
\* the usernames testuser, admin, employer_test and premium_user is the
\* username of exactly one User row
C29_TestUsersExistOnce ==
    response.op = "create_test_users"
    => \A name \in {"testuser", "admin", "employer_test", "premium_user"} :
          Cardinality({u \in users : u.username = name}) = 1

-----------------------------------------------------------------------------
(* Claims about the cultural fit *)

\* C10: the overall score is the mean of the factor scores that apply, the
\* hierarchy factor always applies so the mean is defined, the score is bucketed
\* at 85, 70 and 55, and for company levels in 1..10 it lies within 0..100
C10_MeanAndBuckets ==
    fit.called =>
        LET score == fit.overall_fit_score
            value(k) == IF k \in DOMAIN fit.scores THEN fit.scores[k] ELSE 0
        IN  /\ ~ fit.raised
            /\ "hierarchy" \in DOMAIN fit.scores
            /\ DOMAIN fit.scores \subseteq
                  {"collaboration", "communication", "hierarchy", "work_life"}
            /\ score.den = Cardinality(DOMAIN fit.scores)
            /\ score.den >= 1
            /\ score.num = value("collaboration") + value("communication")
                           + value("hierarchy") + value("work_life")
            /\ (score.num >= 85 * score.den)
                  <=> (fit.compatibility_level = "Excellent Fit")
            /\ (score.num >= 70 * score.den /\ score.num < 85 * score.den)
                  <=> (fit.compatibility_level = "Good Fit")
            /\ (score.num >= 55 * score.den /\ score.num < 70 * score.den)
                  <=> (fit.compatibility_level = "Moderate Fit")
            /\ (score.num < 55 * score.den)
                  <=> (fit.compatibility_level = "Challenging Fit")
            /\ ( /\ company.hierarchy_level \in 1..10
                 /\ company.collaboration_level \in 1..10
                 /\ company.work_life_balance \in 1..10 )
               => (0 <= score.num /\ score.num <= 100 * score.den)

\* a call whose four factors all apply and whose mean is exactly 85
C10_Witness ==
    /\ fit.called
    /\ fit.overall_fit_score.den = 4
    /\ fit.overall_fit_score.num = 85 * 4
    /\ fit.compatibility_level = "Excellent Fit"
    /\ company.hierarchy_level \in 1..10
    /\ company.collaboration_level \in 1..10
    /\ company.work_life_balance \in 1..10

-----------------------------------------------------------------------------
(* Claims about visa eligibility *)

\* C21: every result of _assess_single_visa has eligibility_score = 100 times
\* the points of the requirements met over the points of all requirements of
\* the visa type, a mandatory requirement counting 100 points and an optional
\* one 50, and 0 when the visa type has no requirements; the score lies within
\* 0..100; the status is Highly Eligible from 90 on, Eligible from 70 up to 90,
\* Partially Eligible from 50 up to 70 and Not Eligible below 50
C21_ScoreAndStatus ==
    (call.visa_navigator.op = "assess_eligibility" /\ call.visa_navigator.returned)
    => \A i \in DOMAIN call.visa_navigator.results :
          LET user_profile == call.visa_navigator.user_profile
              result == call.visa_navigator.results[i]
              score == result.eligibility_score
              reqs == VisaRequirements(result.visa_type)
              Weight(k) == IF reqs[k].mandatory THEN 100 ELSE 50
              met == {k \in DOMAIN reqs :
                         CheckRequirement(user_profile, reqs[k])}
              all_100 == Cardinality({k \in DOMAIN reqs : Weight(k) = 100})
              all_50 == Cardinality({k \in DOMAIN reqs : Weight(k) = 50})
              met_100 == Cardinality({k \in met : Weight(k) = 100})
              met_50 == Cardinality({k \in met : Weight(k) = 50})
              all == 100 * all_100 + 50 * all_50
              points == 100 * met_100 + 50 * met_50
          IN  /\ score.den > 0
              /\ IF reqs = <<>>
                   THEN score.num = 0
                   ELSE score.num * all = 100 * points * score.den
              /\ 0 <= score.num
              /\ score.num <= 100 * score.den
              /\ result.status =
                    IF score.num >= 90 * score.den THEN "Highly Eligible"
                    ELSE IF score.num >= 70 * score.den THEN "Eligible"
                    ELSE IF score.num >= 50 * score.den THEN "Partially Eligible"
                    ELSE "Not Eligible"

\* one call assessed H1B for a profile that meets the two mandatory
\* requirements it can meet (200 of 350 points) and a visa type without
\* requirements
C21_Witness ==
    /\ call.visa_navigator.op = "assess_eligibility"
    /\ call.visa_navigator.returned
    /\ \E i \in DOMAIN call.visa_navigator.results,
          j \in DOMAIN call.visa_navigator.results :
          LET h1b == call.visa_navigator.results[i]
              l1 == call.visa_navigator.results[j]
          IN  /\ h1b.visa_type = "H1B"
              /\ h1b.eligibility_score = [num |-> 20000, den |-> 350]
              /\ h1b.status = "Partially Eligible"
              /\ Len(h1b.requirements_missing) = 2
              /\ l1.visa_type = "L1"
              /\ l1.eligibility_score.num = 0
              /\ l1.status = "Not Eligible"

-----------------------------------------------------------------------------
(* Claims about the rankings *)

\* C23: match_company_culture returns one result for every entry of the
\* requested list that is a company of the database and none for the others,
\* in non-increasing order of overall_fit_score; assess_eligibility returns one
\* result for every entry of the requested list of visa types, in
\* non-increasing order of eligibility_score
C23_RankedResults ==
    LET Count(seq, x) == Cardinality({i \in DOMAIN seq : seq[i] = x})
        matched == call.cultural_ai
        assessed == call.visa_navigator
    IN  /\ (matched.op = "match_company_culture" /\ matched.returned)
           => LET names == [i \in DOMAIN matched.results |->
                               matched.results[i].company_name]
              IN  /\ \A name \in DOMAIN CompanyDatabase :
                        Count(names, name) = Count(matched.target_companies, name)
                  /\ \A i \in DOMAIN names : names[i] \in DOMAIN CompanyDatabase
                  /\ \A i \in DOMAIN names, j \in DOMAIN names :
                        i < j => ~ FractionLess(
                                      matched.results[i].overall_fit_score,
                                      matched.results[j].overall_fit_score)
        /\ (assessed.op = "assess_eligibility" /\ assessed.returned)
           => LET types == [i \in DOMAIN assessed.results |->
                               assessed.results[i].visa_type]
              IN  /\ Len(types) = Len(assessed.target_visas)
                  /\ \A t \in VisaTypes :
                        Count(types, t) = Count(assessed.target_visas, t)
                  /\ \A i \in DOMAIN types, j \in DOMAIN types :
                        i < j => ~ FractionLess(
                                      assessed.results[i].eligibility_score,
                                      assessed.results[j].eligibility_score)

\* both functions returned a list in another order than the requested one:
\* the unknown company was skipped and the company requested last ranks
\* first; the visa type requested second ranks first, before the two results
\* for the type requested twice
C23_Witness ==
    /\ call.cultural_ai.returned
    /\ call.cultural_ai.target_companies = <<"Acme", "Goldman Sachs", "Google">>
    /\ Len(call.cultural_ai.results) = 2
    /\ call.cultural_ai.results[1].company_name = "Google"
    /\ call.cultural_ai.results[2].company_name = "Goldman Sachs"
    /\ call.visa_navigator.returned
    /\ call.visa_navigator.target_visas = <<"L1", "H1B", "L1">>
    /\ call.visa_navigator.results[1].visa_type = "H1B"
    /\ call.visa_navigator.results[2].visa_type = "L1"
    /\ call.visa_navigator.results[3].visa_type = "L1"

-----------------------------------------------------------------------------
(* Claims about the cultural analysis *)

\* C22: in every response of api_cultural_analysis that carries scores, each
\* of overall_fit, communication_style, work_life_balance, hierarchy_comfort
\* and adaptation_difficulty of every country is an integer within 10..100,
\* and adaptation_difficulty is max(10, 100 - overall_fit)
C22_ScoresInRange ==
    (response.op = "api_cultural_analysis" /\ response.code = 200)
    => \A country \in DOMAIN response.body.cultural_scores :
          LET scores == response.body.cultural_scores[country]
          IN  /\ \A key \in DOMAIN scores : scores[key] \in 10..100
              /\ scores.adaptation_difficulty =
                    IF 100 - scores.overall_fit > 10
                      THEN 100 - scores.overall_fit
                      ELSE 10

\* the analysis of a country whose overall_fit of 91 leaves 9, which is lifted
\* to the adaptation_difficulty of 10
C22_Witness ==
    /\ response.op = "api_cultural_analysis"
    /\ response.code = 200
    /\ \E country \in DOMAIN response.body.cultural_scores :
          response.body.cultural_scores[country] =
             [overall_fit |-> 91, communication_style |-> 90,
              work_life_balance |-> 90, hierarchy_comfort |-> 95,
              adaptation_difficulty |-> 10]

-----------------------------------------------------------------------------
(* Claims about the in-memory ATS *)

\* C26: in every reachable state of the ATSSystem, the applications_count of
\* every job posting is the number of candidates hiring_pipeline records for
\* the job, every candidate id of the pipeline is a key of candidates, and the
\* status of every pipeline entry is the status of the last element of its
\* stage_history
C26_PipelineConsistent ==
    /\ \A job_id \in DOMAIN ats.job_postings :
          ats.job_postings[job_id].applications_count =
             IF job_id \in DOMAIN ats.hiring_pipeline
               THEN Cardinality(DOMAIN ats.hiring_pipeline[job_id])
               ELSE 0
    /\ \A job_id \in DOMAIN ats.hiring_pipeline :
          \A candidate_id \in DOMAIN ats.hiring_pipeline[job_id] :
             LET entry == ats.hiring_pipeline[job_id][candidate_id]
             IN  /\ candidate_id \in DOMAIN ats.candidates
                 /\ ApplicationStatusValue(entry.status) =
                       entry.stage_history[Len(entry.stage_history)].status

====
